---- MODULE Spec2Model ----
(***************************************************************************)
(* Model of the unified-semantic-archiver core: the tenant-scoped storage  *)
(* engine (db/continuum_db.py, class ContinuumDb) and the NASA flat-file   *)
(* ingestion runner (etl/nasa_ingestion.py, class NasaIngestionRunner).    *)
(*                                                                         *)
(* Representation of Python values:                                        *)
(*   - a str that the code trims or compares is a tuple of one-character   *)
(*     strings, so str.strip() is computed and not assumed;                *)
(*   - an optional value is None == <<>> or Some(v) == <<v>>;              *)
(*   - a table is the sequence of its rows, the AUTOINCREMENT id of a row  *)
(*     is its index;                                                       *)
(*   - every SQL statement is one atomic step (SQLite serialises writers). *)
(***************************************************************************)
EXTENDS Integers, Sequences, FiniteSets, TLC

VARIABLES
    ingestion_jobs,      \* table ingestion_jobs
    ephemeris_samples,   \* table ephemeris_samples
    nasa_file_registry,  \* table nasa_file_registry
    disk,                \* the file system: absolute path -> file content
    now,                 \* the wall clock read by datetime('now')
    call,                \* per caller: the frame of its run_ingestion_job call
    ret,                 \* per caller: what its last run_ingestion_job call returned
    added,               \* per caller: row ids its current/last call inserted
    library_documents,      \* table library_documents
    astral_body_catalog,    \* table astral_body_catalog
    astral_observer_sites,  \* table astral_observer_sites
    occlusion_events,       \* table occlusion_events
    answer                  \* what the read operation of the run returned

\* The tables the ingestion runner does not touch, and the read's result.
catalog == <<library_documents, astral_body_catalog, astral_observer_sites,
             occlusion_events, answer>>

vars == <<ingestion_jobs, ephemeris_samples, nasa_file_registry, disk, now,
          call, ret, added, catalog>>

(***************************************************************************)
(* Bounds of the model.                                                    *)
(***************************************************************************)
MaxJobs == 1
MaxAttempts == 2
MaxNow == 1
MaxInserts == 2
MaxPrecision == 2
MaxBlocks == 3

(***************************************************************************)
(* Python values.                                                          *)
(***************************************************************************)
None == <<>>
Some(v) == <<v>>
IsNone(o) == o = <<>>
Get(o) == o[1]

\* Python truthiness of an optional str: None and "" are falsy.
Truthy(o) == o # None /\ Get(o) # <<>>

\* `a or b` on optional strs.
PyOr(a, b) == IF Truthy(a) THEN a ELSE b

RECURSIVE lstrip(_)
lstrip(s) == IF s # <<>> /\ Head(s) = " " THEN lstrip(Tail(s)) ELSE s

RECURSIVE rstrip(_)
rstrip(s) == IF s # <<>> /\ s[Len(s)] = " " THEN rstrip(SubSeq(s, 1, Len(s) - 1)) ELSE s

\* str.strip()
strip(s) == rstrip(lstrip(s))

Default == <<"d", "e", "f", "a", "u", "l", "t">>
Earth == <<"e", "a", "r", "t", "h">>

\* tenant = (tenant_id or "").strip() or "default"
Tenant(tenant_id) ==
    LET t == strip(tenant_id) IN IF t = <<>> THEN Default ELSE t

(***************************************************************************)
(* Stored TEXT and JSON.  A stored text is either raw characters that are  *)
(* not JSON (kind "raw", the empty text included) or the serialisation of  *)
(* a JSON value (kind "json").  A JSON value is an object with the         *)
(* recognised payload keys, or something that is not an object.            *)
(***************************************************************************)
RawText(chars) == [kind |-> "raw", val |-> chars]
JsonText(v) == [kind |-> "json", val |-> v]

JsonObject(source, body_id, file_id) ==
    [kind |-> "object",
     val |-> [source |-> source, body_id |-> body_id, file_id |-> file_id]]
JsonArray == [kind |-> "array", val |-> [source |-> None, body_id |-> None, file_id |-> None]]
EmptyDict == JsonObject(None, None, None)

\* json.dumps(d)
json_dumps(d) == JsonText(d)

\* json.loads(text): the value, or JSONDecodeError for text that is not JSON.
json_loads(text) ==
    IF text.kind = "json" THEN [ok |-> TRUE, value |-> text.val]
    ELSE [ok |-> FALSE, value |-> EmptyDict]

(***************************************************************************)
(* The file system.  A path is absolute when it starts with "/"; resolve   *)
(* prefixes the working directory to a relative one.  A horizons file is   *)
(* the sequence of its $$SOE..$$EOE blocks.                                *)
(***************************************************************************)
Cwd == <<"/">>
resolve(path) == IF path # <<>> /\ Head(path) = "/" THEN path ELSE Cwd \o path

\* Path(p).is_file()
is_file(fs, path) == resolve(path) \in DOMAIN fs

\* A block: its epoch line (the calendar date and whether it is a date of the
\* calendar), its position line and its velocity line, each possibly missing.
Epoch(utc, date_ok) == [utc |-> utc, date_ok |-> date_ok]
Block(epoch, pos, vel) == [epoch |-> epoch, pos |-> pos, vel |-> vel]

PathTwo == <<"/", "a">>      \* two valid blocks, later epoch first
PathZero == <<"/", "z">>     \* one block, velocity line missing
PathBad == <<"/", "x">>      \* a valid block, then a block dated Feb 30
PathMissing == <<"/", "n">>  \* no such file
RelativeTwo == <<"a">>       \* PathTwo, relative to the working directory

InitialDisk ==
    (PathTwo :> <<Block(Some(Epoch(2, TRUE)), Some(<<1, 2, 3>>), Some(<<4, 5, 6>>)),
                  Block(Some(Epoch(1, TRUE)), Some(<<7, 8, 9>>), Some(<<1, 1, 1>>))>>)
    @@ (PathZero :> <<Block(Some(Epoch(3, TRUE)), Some(<<1, 2, 3>>), None)>>)
    @@ (PathBad :> <<Block(Some(Epoch(4, TRUE)), Some(<<1, 2, 3>>), Some(<<4, 5, 6>>)),
                     Block(Some(Epoch(5, FALSE)), Some(<<1, 2, 3>>), Some(<<4, 5, 6>>))>>)

ValueError == <<"day is out of range for month">>

\* The loop of _parse_horizons_vectors: the sample of a block that has all
\* three lines, nothing for a block that lacks one; datetime() raises on a
\* date that is no calendar date.
RECURSIVE parse_blocks(_, _, _)
parse_blocks(blocks, body_id, samples) ==
    IF blocks = <<>> THEN [ok |-> TRUE, samples |-> samples, error |-> <<>>]
    ELSE LET b == Head(blocks) IN
         IF b.epoch # None /\ b.pos # None /\ b.vel # None
         THEN IF Get(b.epoch).date_ok
              THEN parse_blocks(Tail(blocks), body_id,
                       Append(samples, [body_id |-> body_id,
                                        epoch_utc |-> Get(b.epoch).utc,
                                        position |-> Get(b.pos),
                                        velocity |-> Get(b.vel)]))
              ELSE [ok |-> FALSE, samples |-> <<>>, error |-> ValueError]
         ELSE parse_blocks(Tail(blocks), body_id, samples)

\* Mutant: the samples are returned last block first.
parse_horizons_vectors_reversed(fs, path, body_id) ==
    LET parsed == parse_blocks(fs[resolve(path)], body_id, <<>>)
        n == Len(parsed.samples)
    IN [parsed EXCEPT !.samples = [k \in 1..n |-> parsed.samples[n + 1 - k]]]

parse_horizons_vectors(fs, path, body_id) ==
    parse_blocks(fs[resolve(path)], body_id, <<>>)

(***************************************************************************)
(* Storage engine: table ingestion_jobs.                                   *)
(***************************************************************************)
\* The columns an INSERT does not name take the schema's defaults.
ingestion_jobs_defaults ==
    [attempt_count |-> 0, started_at |-> None, finished_at |-> None,
     error_text |-> None]

ingestion_job_insert(jobs, job_type, source, payload_json, status, tenant_id, t) ==
    LET tenant == Tenant(tenant_id)
        payload_str == IF payload_json.kind = "dict"
                       THEN Some(json_dumps(payload_json.val))
                       ELSE IF payload_json.kind = "str" THEN Some(payload_json.val)
                       ELSE None
    IN Append(jobs, [job_type |-> job_type, source |-> source, status |-> status,
                     payload_json |-> payload_str, tenant_id |-> tenant,
                     updated_at |-> t,
                     attempt_count |-> ingestion_jobs_defaults.attempt_count,
                     started_at |-> ingestion_jobs_defaults.started_at,
                     finished_at |-> ingestion_jobs_defaults.finished_at,
                     error_text |-> ingestion_jobs_defaults.error_text])

\* Mutant: the status guard is missing from the WHERE clause.
ingestion_job_start_where_unguarded(id, row, job_id, tenant) ==
    id = job_id /\ row.tenant_id = tenant

\* Mutant: a completed job is startable again.
ingestion_job_start_where_restart(id, row, job_id, tenant) ==
    id = job_id /\ row.tenant_id = tenant
    /\ row.status \in {"pending", "failed", "completed"}

\* Mutant: a running job is startable as well.
ingestion_job_start_where_running(id, row, job_id, tenant) ==
    id = job_id /\ row.tenant_id = tenant
    /\ row.status \in {"pending", "failed", "running"}

\* WHERE id = ? AND tenant_id = ? AND status IN ('pending','failed')
ingestion_job_start_where(id, row, job_id, tenant) ==
    id = job_id /\ row.tenant_id = tenant /\ row.status \in {"pending", "failed"}

\* Mutant: the UPDATE counts the attempt but leaves the status as it was.
ingestion_job_start_set_keeps_status(row, t) ==
    [row EXCEPT !.started_at = IF @ = None THEN Some(t) ELSE @,
                !.attempt_count = @ + 1,
                !.updated_at = t]

\* Mutant: every start stamps started_at again.
ingestion_job_start_set_restamps(row, t) ==
    [row EXCEPT !.status = "running",
                !.started_at = Some(t),
                !.attempt_count = @ + 1,
                !.updated_at = t]

\* Mutant: a start never stamps started_at.
ingestion_job_start_set_unstamped(row, t) ==
    [row EXCEPT !.status = "running",
                !.attempt_count = @ + 1,
                !.updated_at = t]

\* Mutant: a start clears the error_text of the previous attempt.
ingestion_job_start_set_clears_error(row, t) ==
    [row EXCEPT !.status = "running",
                !.started_at = IF @ = None THEN Some(t) ELSE @,
                !.attempt_count = @ + 1,
                !.error_text = None,
                !.updated_at = t]

ingestion_job_start_set(row, t) ==
    [row EXCEPT !.status = "running",
                !.started_at = IF @ = None THEN Some(t) ELSE @,
                !.attempt_count = @ + 1,
                !.updated_at = t]

\* ingestion_job_start: the table after the UPDATE, and cur.rowcount > 0.
ingestion_job_start(jobs, job_id, tenant_id, t) ==
    LET tenant == Tenant(tenant_id)
        hit == {i \in DOMAIN jobs : ingestion_job_start_where(i, jobs[i], job_id, tenant)}
    IN [rows |-> [i \in DOMAIN jobs |->
                     IF i \in hit THEN ingestion_job_start_set(jobs[i], t) ELSE jobs[i]],
        ret |-> Cardinality(hit) > 0]

\* WHERE id = ? AND tenant_id = ?
ingestion_job_where(id, row, job_id, tenant) ==
    id = job_id /\ row.tenant_id = tenant

\* Mutant: complete leaves the error_text of the last failure in place.
ingestion_job_complete_set_keeps_error(row, t) ==
    [row EXCEPT !.status = "completed", !.finished_at = Some(t), !.updated_at = t]

ingestion_job_complete_set(row, t) ==
    [row EXCEPT !.status = "completed", !.finished_at = Some(t),
                !.error_text = None, !.updated_at = t]

ingestion_job_complete(jobs, job_id, tenant_id, t) ==
    LET tenant == Tenant(tenant_id) IN
    [i \in DOMAIN jobs |->
        IF ingestion_job_where(i, jobs[i], job_id, tenant)
        THEN ingestion_job_complete_set(jobs[i], t) ELSE jobs[i]]

\* Mutant: a failure resets the attempt counter.
ingestion_job_fail_set_resets_attempts(row, error_text, t) ==
    [row EXCEPT !.status = "failed", !.finished_at = Some(t),
                !.error_text = Some(error_text), !.updated_at = t,
                !.attempt_count = 0]

ingestion_job_fail_set(row, error_text, t) ==
    [row EXCEPT !.status = "failed", !.finished_at = Some(t),
                !.error_text = Some(error_text), !.updated_at = t]

ingestion_job_fail(jobs, job_id, error_text, tenant_id, t) ==
    LET tenant == Tenant(tenant_id) IN
    [i \in DOMAIN jobs |->
        IF ingestion_job_where(i, jobs[i], job_id, tenant)
        THEN ingestion_job_fail_set(jobs[i], error_text, t) ELSE jobs[i]]

\* Mutant: the SELECT looks the row up by id alone.
ingestion_job_get_any_tenant(jobs, job_id, tenant_id) ==
    IF job_id \in DOMAIN jobs THEN Some(jobs[job_id]) ELSE None

\* ingestion_job_get: Some(row) or None.
ingestion_job_get(jobs, job_id, tenant_id) ==
    LET tenant == Tenant(tenant_id)
        hit == {i \in DOMAIN jobs : ingestion_job_where(i, jobs[i], job_id, tenant)}
    IN IF hit = {} THEN None ELSE Some(jobs[CHOOSE i \in hit : TRUE])

(***************************************************************************)
(* Storage engine: tables nasa_file_registry and ephemeris_samples.        *)
(***************************************************************************)
RECURSIVE DescIds(_)
\* ORDER BY id DESC over a set of row ids.
DescIds(ids) ==
    IF ids = {} THEN <<>>
    ELSE LET m == CHOOSE i \in ids : \A j \in ids : j <= i
         IN <<m>> \o DescIds(ids \ {m})

\* LIMIT n (a negative LIMIT is no limit in SQLite).
Limit(seq, n) == IF n < 0 \/ n >= Len(seq) THEN seq ELSE SubSeq(seq, 1, n)

\* rows[:n] of a Python list.
Slice(seq, n) ==
    IF n >= Len(seq) THEN seq
    ELSE IF n >= 0 THEN SubSeq(seq, 1, n)
    ELSE SubSeq(seq, 1, IF Len(seq) + n > 0 THEN Len(seq) + n ELSE 0)

\* dict(row) of a selected row: the row's columns and its id.
RowOf(table, i) == [id |-> i, row |-> table[i]]

nasa_file_insert(reg, file_type, local_path, checksum, valid_from, valid_to, tenant_id) ==
    Append(reg, [file_type |-> file_type, local_path |-> local_path,
                 checksum |-> checksum, valid_from |-> valid_from,
                 valid_to |-> valid_to, tenant_id |-> Tenant(tenant_id)])

\* nasa_file_list: WHERE tenant_id = ? [AND file_type = ?] ORDER BY id DESC
\* LIMIT ?
nasa_file_list(reg, file_type, tenant_id, limit) ==
    LET tenant == Tenant(tenant_id)
        hit == {i \in DOMAIN reg :
                   /\ reg[i].tenant_id = tenant
                   /\ file_type # "" => reg[i].file_type = file_type}
        ids == Limit(DescIds(hit), limit)
    IN [k \in DOMAIN ids |-> RowOf(reg, ids[k])]

\* Mutant: a sample equal to a stored one is not inserted again.
ephemeris_sample_insert_unique(rows, body_id, epoch_utc, position, velocity, frame_id, source_file_id, tenant_id) ==
    LET row == [body_id |-> body_id, epoch_utc |-> epoch_utc,
                position |-> position, velocity |-> velocity,
                frame_id |-> frame_id, source_file_id |-> source_file_id,
                tenant_id |-> Tenant(tenant_id)]
    IN IF \E i \in DOMAIN rows : rows[i] = row THEN rows ELSE Append(rows, row)

ephemeris_sample_insert(rows, body_id, epoch_utc, position, velocity, frame_id, source_file_id, tenant_id) ==
    Append(rows, [body_id |-> body_id, epoch_utc |-> epoch_utc,
                  position |-> position, velocity |-> velocity,
                  frame_id |-> frame_id, source_file_id |-> source_file_id,
                  tenant_id |-> Tenant(tenant_id)])

(***************************************************************************)
(* Storage engine: the read operations, and the other tenant-scoped        *)
(* tables.  Columns that no WHERE or ORDER BY clause reads (name, blob_ref, *)
(* mass_kg, ...) are left out of the rows.  A filter argument that Python  *)
(* finds falsy (None or '') is the empty string "" or None.                *)
(***************************************************************************)
\* The orders in which ORDER BY may return the rows ids: ascending by rank,
\* rows of equal rank in any order.
OrderBy(ids, rank) ==
    {s \in [1..Cardinality(ids) -> ids] :
        /\ \A i, j \in DOMAIN s : i # j => s[i] # s[j]
        /\ \A i, j \in DOMAIN s : i < j => rank[s[i]] <= rank[s[j]]}

\* The rows of a SELECT whose row ids come in the order ids.
Rows(table, ids) == [k \in DOMAIN ids |-> RowOf(table, ids[k])]

\* fetchone() of a SELECT by key that has no ORDER BY: None, or any one of
\* the rows that match.
FetchOne(table, hit) ==
    IF hit = {} THEN {None} ELSE {Some(RowOf(table, i)) : i \in hit}

\* The collating order of the characters used in keys.
Collation == <<" ", "/", "a", "b", "e", "j", "m", "s">>
Ord(ch) == CHOOSE i \in DOMAIN Collation : Collation[i] = ch

\* a < b for strs (BINARY collation).
RECURSIVE StrLess(_, _)
StrLess(a, b) ==
    IF b = <<>> THEN FALSE
    ELSE IF a = <<>> THEN TRUE
    ELSE IF Head(a) = Head(b) THEN StrLess(Tail(a), Tail(b))
    ELSE Ord(Head(a)) < Ord(Head(b))

\* The rank of each row of hit under ORDER BY a str key.
StrRank(hit, key) ==
    [i \in hit |-> Cardinality({j \in hit : StrLess(key[j], key[i])})]

Abs(x) == IF x < 0 THEN -x ELSE x

nasa_file_get(reg, file_id, tenant_id) ==
    LET tenant == Tenant(tenant_id) IN
    IF file_id \in DOMAIN reg /\ reg[file_id].tenant_id = tenant
    THEN Some(RowOf(reg, file_id)) ELSE None

\* ORDER BY id DESC LIMIT 1
ephemeris_sample_get(rows, body_id, epoch_utc, tenant_id) ==
    LET tenant == Tenant(tenant_id)
        hit == {i \in DOMAIN rows :
                   /\ rows[i].body_id = body_id
                   /\ rows[i].epoch_utc = epoch_utc
                   /\ rows[i].tenant_id = tenant}
    IN IF hit = {} THEN None ELSE Some(RowOf(rows, DescIds(hit)[1]))

\* ORDER BY ABS(julianday(epoch_utc) - julianday(?)) ASC LIMIT ?
ephemeris_sample_list_near_epoch(rows, body_id, epoch_utc, tenant_id, limit) ==
    LET tenant == Tenant(tenant_id)
        hit == {i \in DOMAIN rows :
                   rows[i].body_id = body_id /\ rows[i].tenant_id = tenant}
        rank == [i \in hit |-> Abs(rows[i].epoch_utc - epoch_utc)]
    IN {Rows(rows, Limit(ids, limit)) : ids \in OrderBy(hit, rank)}

ingestion_job_list(jobs, status, job_type, tenant_id, limit) ==
    LET tenant == Tenant(tenant_id)
        hit == {i \in DOMAIN jobs :
                   /\ jobs[i].tenant_id = tenant
                   /\ status # "" => jobs[i].status = status
                   /\ job_type # "" => jobs[i].job_type = job_type}
    IN Rows(jobs, Limit(DescIds(hit), limit))

\* _geohash_encode: the intervals are kept as integers, in units of
\* 1 / GeoScale of a degree, so that every midpoint is exact.
GEOHASH_ALPHABET ==
    <<"0", "1", "2", "3", "4", "5", "6", "7", "8", "9", "b", "c", "d", "e", "f",
      "g", "h", "j", "k", "m", "n", "o", "p", "q", "r", "s", "t", "u", "v", "w",
      "x", "y", "z">>

GeoScale == 2097152

RECURSIVE geohash_loop(_, _, _, _)
geohash_loop(lat, lon, g, precision) ==
    IF Len(g.result) >= precision THEN g.result
    ELSE LET mid == IF g.bit % 2 = 0 THEN (g.lon_lo + g.lon_hi) \div 2
                    ELSE (g.lat_lo + g.lat_hi) \div 2
             up == IF g.bit % 2 = 0 THEN lon * GeoScale >= mid
                   ELSE lat * GeoScale >= mid
             bits == IF up THEN 2 * g.bits + 1 ELSE 2 * g.bits
             h == IF g.bit % 2 = 0
                  THEN IF up THEN [g EXCEPT !.lon_lo = mid] ELSE [g EXCEPT !.lon_hi = mid]
                  ELSE IF up THEN [g EXCEPT !.lat_lo = mid] ELSE [g EXCEPT !.lat_hi = mid]
         IN IF g.bit + 1 = 5
            THEN geohash_loop(lat, lon,
                     [h EXCEPT !.bits = 0, !.bit = 0,
                               !.result = Append(@, GEOHASH_ALPHABET[bits + 1])],
                     precision)
            ELSE geohash_loop(lat, lon, [h EXCEPT !.bits = bits, !.bit = g.bit + 1],
                              precision)

geohash_encode(lat, lon, precision) ==
    geohash_loop(lat, lon,
                 [lat_lo |-> -90 * GeoScale, lat_hi |-> 90 * GeoScale,
                  lon_lo |-> -180 * GeoScale, lon_hi |-> 180 * GeoScale,
                  bits |-> 0, bit |-> 0, result |-> <<>>],
                 precision)

\* _haversine_mi for points whose coordinates are multiples of 90 degrees,
\* in thousandths of a mile.  On these points sin(d/2)**2 is 0, 1/2 or 1
\* and cos is 0 or 1, so x is a multiple of 1/2; TwiceSinSq and TwiceX are
\* the doubles.  asin(sqrt(x)) is then 0, pi/4 or pi/2.
TwiceSinSq(d) == IF d % 180 = 0 THEN (IF d % 360 = 0 THEN 0 ELSE 2) ELSE 1
Cos(d) == IF d % 180 = 0 THEN 1 ELSE 0
QuarterTurnMilliMi == 6218468
Min(a, b) == IF a <= b THEN a ELSE b

\* Mutant: the cosine of the first latitude is taken twice.
haversine_mi_first_latitude(lat1, lon1, lat2, lon2) ==
    LET TwiceX == TwiceSinSq(lat2 - lat1)
                     + Cos(lat1) * Cos(lat1) * TwiceSinSq(lon2 - lon1)
    IN Min(2, TwiceX) * QuarterTurnMilliMi

haversine_mi(lat1, lon1, lat2, lon2) ==
    LET TwiceX == TwiceSinSq(lat2 - lat1)
                     + Cos(lat1) * Cos(lat2) * TwiceSinSq(lon2 - lon1)
    IN Min(2, TwiceX) * QuarterTurnMilliMi

\* SQLite's LIKE folds the case of ASCII letters.
Lower(ch) == IF ch = "A" THEN "a" ELSE IF ch = "B" THEN "b" ELSE ch
Fold(s) == [k \in DOMAIN s |-> Lower(s[k])]

\* column LIKE '%q%' for a q without wildcards; NULL LIKE ... is no match.
Like(column, q) ==
    /\ column # None
    /\ \E k \in 0..(Len(Get(column)) - Len(q)) :
          SubSeq(Fold(Get(column)), k + 1, k + Len(q)) = Fold(q)

\* type_metadata is None or a str here.
library_document_insert(docs, document_type, url, type_metadata, tenant_id, lat, lon) ==
    LET geohash == IF lat # None /\ lon # None
                   THEN Some(geohash_encode(Get(lat), Get(lon), 7)) ELSE None
    IN Append(docs, [document_type |-> document_type, url |-> url,
                     type_metadata |-> type_metadata, tenant_id |-> Tenant(tenant_id),
                     lat |-> lat, lon |-> lon, geohash |-> geohash])

\* Mutant: the SELECT looks the document up by id alone.
library_document_get_any_tenant(docs, doc_id, tenant_id) ==
    IF doc_id \in DOMAIN docs THEN Some(RowOf(docs, doc_id)) ELSE None

library_document_get(docs, doc_id, tenant_id) ==
    LET tenant == Tenant(tenant_id) IN
    IF doc_id \in DOMAIN docs /\ docs[doc_id].tenant_id = tenant
    THEN Some(RowOf(docs, doc_id)) ELSE None

library_document_list(docs, document_type, tenant_id, limit) ==
    LET tenant == Tenant(tenant_id)
        hit == {i \in DOMAIN docs :
                   /\ docs[i].tenant_id = tenant
                   /\ document_type # "" => docs[i].document_type = document_type}
    IN Rows(docs, Limit(DescIds(hit), limit))

\* distance_mi: absent, the word "infinite", a number of miles, or a str that
\* float() rejects.
NoDistance == [kind |-> "None", val |-> 0]
Infinite == [kind |-> "infinite", val |-> 0]
Miles(n) == [kind |-> "float", val |-> n]
NotANumber == [kind |-> "str", val |-> 0]

\* Mutant: the distance filter keeps the rows that have no coordinates.
library_document_search_keeps_unlocated(docs, document_type, q, lat, lon, distance_mi, tenant_id, limit) ==
    LET tenant == Tenant(tenant_id)
        hit == {i \in DOMAIN docs :
                   /\ docs[i].tenant_id = tenant
                   /\ document_type # "" => docs[i].document_type = document_type
                   /\ q # <<>> => (Like(docs[i].type_metadata, q) \/ Like(docs[i].url, q))}
        rows == DescIds(hit)
        near == IF lat # None /\ lon # None /\ distance_mi.kind = "float"
                THEN LET dist == distance_mi.val IN
                     IF dist = 0
                     THEN LET bucket == geohash_encode(Get(lat), Get(lon), 7) IN
                          SelectSeq(rows, LAMBDA i : docs[i].geohash = Some(bucket))
                     ELSE SelectSeq(rows, LAMBDA i :
                              \/ docs[i].lat = None \/ docs[i].lon = None
                              \/ haversine_mi(Get(lat), Get(lon), Get(docs[i].lat),
                                              Get(docs[i].lon)) <= 1000 * dist)
                ELSE rows
    IN Rows(docs, Slice(near, limit))

\* Mutant: the limit is a LIMIT of the SELECT, before the location filter.
library_document_search_limits_first(docs, document_type, q, lat, lon, distance_mi, tenant_id, limit) ==
    LET tenant == Tenant(tenant_id)
        hit == {i \in DOMAIN docs :
                   /\ docs[i].tenant_id = tenant
                   /\ document_type # "" => docs[i].document_type = document_type
                   /\ q # <<>> => (Like(docs[i].type_metadata, q) \/ Like(docs[i].url, q))}
        rows == Limit(DescIds(hit), limit)
        near == IF lat # None /\ lon # None /\ distance_mi.kind = "float"
                THEN LET dist == distance_mi.val IN
                     IF dist = 0
                     THEN LET bucket == geohash_encode(Get(lat), Get(lon), 7) IN
                          SelectSeq(rows, LAMBDA i : docs[i].geohash = Some(bucket))
                     ELSE SelectSeq(rows, LAMBDA i :
                              /\ docs[i].lat # None /\ docs[i].lon # None
                              /\ haversine_mi(Get(lat), Get(lon), Get(docs[i].lat),
                                              Get(docs[i].lon)) <= 1000 * dist)
                ELSE rows
    IN Rows(docs, near)

library_document_search(docs, document_type, q, lat, lon, distance_mi, tenant_id, limit) ==
    LET tenant == Tenant(tenant_id)
        hit == {i \in DOMAIN docs :
                   /\ docs[i].tenant_id = tenant
                   /\ document_type # "" => docs[i].document_type = document_type
                   /\ q # <<>> => (Like(docs[i].type_metadata, q) \/ Like(docs[i].url, q))}
        rows == DescIds(hit)
        near == IF lat # None /\ lon # None /\ distance_mi.kind = "float"
                THEN LET dist == distance_mi.val IN
                     IF dist = 0
                     THEN LET bucket == geohash_encode(Get(lat), Get(lon), 7) IN
                          SelectSeq(rows, LAMBDA i : docs[i].geohash = Some(bucket))
                     ELSE SelectSeq(rows, LAMBDA i :
                              /\ docs[i].lat # None /\ docs[i].lon # None
                              /\ haversine_mi(Get(lat), Get(lon), Get(docs[i].lat),
                                              Get(docs[i].lon)) <= 1000 * dist)
                ELSE rows
    IN Rows(docs, Slice(near, limit))

astral_body_insert(bodies, body_id, kind, tenant_id) ==
    Append(bodies, [body_id |-> body_id, kind |-> kind, tenant_id |-> Tenant(tenant_id)])

astral_body_get(bodies, body_id, tenant_id) ==
    LET tenant == Tenant(tenant_id) IN
    FetchOne(bodies, {i \in DOMAIN bodies :
                         bodies[i].body_id = body_id /\ bodies[i].tenant_id = tenant})

\* ORDER BY body_id LIMIT ?
astral_body_list(bodies, kind, tenant_id, limit) ==
    LET tenant == Tenant(tenant_id)
        hit == {i \in DOMAIN bodies :
                   /\ bodies[i].tenant_id = tenant
                   /\ kind # "" => bodies[i].kind = kind}
        rank == StrRank(hit, [i \in hit |-> bodies[i].body_id])
    IN {Rows(bodies, Limit(ids, limit)) : ids \in OrderBy(hit, rank)}

astral_observer_site_insert(sites, site_id, body_id, tenant_id) ==
    Append(sites, [site_id |-> site_id, body_id |-> body_id,
                   tenant_id |-> Tenant(tenant_id)])

astral_observer_site_get(sites, site_id, tenant_id) ==
    LET tenant == Tenant(tenant_id) IN
    FetchOne(sites, {i \in DOMAIN sites :
                        sites[i].site_id = site_id /\ sites[i].tenant_id = tenant})

\* ORDER BY site_id LIMIT ?
astral_observer_site_list(sites, body_id, tenant_id, limit) ==
    LET tenant == Tenant(tenant_id)
        hit == {i \in DOMAIN sites :
                   /\ sites[i].tenant_id = tenant
                   /\ body_id # <<>> => sites[i].body_id = body_id}
        rank == StrRank(hit, [i \in hit |-> sites[i].site_id])
    IN {Rows(sites, Limit(ids, limit)) : ids \in OrderBy(hit, rank)}

occlusion_event_insert(events, epoch_utc, target_body_id, tenant_id) ==
    Append(events, [epoch_utc |-> epoch_utc, target_body_id |-> target_body_id,
                    tenant_id |-> Tenant(tenant_id)])

\* epoch_utc is None when the caller gives no epoch.
occlusion_event_list(events, epoch_utc, target_body_id, tenant_id, limit) ==
    LET tenant == Tenant(tenant_id)
        hit == {i \in DOMAIN events :
                   /\ events[i].tenant_id = tenant
                   /\ epoch_utc # None => events[i].epoch_utc = Get(epoch_utc)
                   /\ target_body_id # <<>> =>
                         events[i].target_body_id = target_body_id}
    IN Rows(events, Limit(DescIds(hit), limit))

(***************************************************************************)
(* NasaIngestionRunner.run_ingestion_job.  A call is a frame: where the    *)
(* call stands (pc), its arguments and its local variables.  Every         *)
(* storage-engine call of the method is one step; the Python between two   *)
(* of them runs with the step before it.                                   *)
(***************************************************************************)
Idle ==
    [pc |-> "idle", job_id |-> 0, tenant_id |-> <<>>, body_id |-> <<>>,
     samples |-> <<>>, source_file_id |-> None, path |-> <<>>, count |-> 0,
     err |-> <<>>, res_err |-> <<>>]

\* What a call gave back: an IngestionResult (kind "result"), the bool of a
\* direct ingestion_job_start (kind "start"), or an exception (kind "raised").
Outcome(kind, job_id, tenant_id, status, samples_inserted, error_text) ==
    [kind |-> kind, job_id |-> job_id, tenant_id |-> tenant_id, status |-> status,
     samples_inserted |-> samples_inserted, error_text |-> error_text]

NoOutcome == Outcome("none", 0, <<>>, "", 0, None)

\* No read operation was called yet.
NoAnswer == [op |-> "none", args |-> <<>>, tenant_id |-> <<>>, rows |-> <<>>]

\* Lines 172-177: the payload as the object the code goes on with; dict is
\* FALSE when the value is not a dict (None for a NULL column, a JSON array),
\* and the first payload.get then raises AttributeError.
decode_payload(col) ==
    IF col = None THEN [dict |-> FALSE, val |-> EmptyDict.val]
    ELSE LET text == Get(col) IN
         IF text = RawText(<<>>) THEN [dict |-> TRUE, val |-> EmptyDict.val]
         ELSE LET loaded == json_loads(text) IN
              IF ~loaded.ok THEN [dict |-> TRUE, val |-> EmptyDict.val]
              ELSE [dict |-> loaded.value.kind = "object", val |-> loaded.value.val]

\* Line 178: (payload.get("source") or job.get("source") or "").strip()
resolve_source(payload, job) ==
    strip(Get(PyOr(PyOr(payload.source, Some(job.source)), Some(<<>>))))

\* Line 180: (payload.get("body_id") or body_id).strip() or "earth"
resolve_body_id(payload, body_id) ==
    LET bid == strip(Get(PyOr(payload.body_id, Some(body_id))))
    IN IF bid = <<>> THEN Earth ELSE bid

AttributeError == <<"object has no attribute 'get'">>

\* Mutant: the exception raised inside the try block leaves the method.
except_Exception_propagates(frame, e) == [frame EXCEPT !.pc = "raise", !.err = e]

\* Lines 222-224: an exception raised inside the try block is caught; the job
\* is failed with str(e), which is also the error_text of the result.
except_Exception(frame, e) == [frame EXCEPT !.pc = "fail", !.err = e, !.res_err = e]

\* Lines 168-199 without the storage-engine writes: the frame after the job
\* row is fetched, the payload decoded, the source checked and parsed.  pc
\* names the write that comes next; "raise" is the exception that leaves the
\* method.
run_load(frame, jobs, fs) ==
    LET job == ingestion_job_get(jobs, frame.job_id, frame.tenant_id) IN
    IF job = None
    THEN [frame EXCEPT !.pc = "fail", !.err = <<"Job record not found">>,
                       !.res_err = <<"Job record not found">>]
    ELSE LET payload == decode_payload(Get(job).payload_json) IN
         IF ~payload.dict
         THEN [frame EXCEPT !.pc = "raise", !.err = AttributeError]
         ELSE LET source == resolve_source(payload.val, Get(job))
                  file_id == payload.val.file_id
                  bid == resolve_body_id(payload.val, frame.body_id)
              IN IF source = <<>>
                 THEN [frame EXCEPT !.pc = "fail",
                                    !.err = <<"Missing source path in payload">>,
                                    !.res_err = <<"Missing source">>]
                 ELSE IF ~is_file(fs, source)
                 THEN [frame EXCEPT !.pc = "fail",
                                    !.err = <<"File not found: ", source>>,
                                    !.res_err = <<"File not found: ", source>>]
                 ELSE LET parsed == parse_horizons_vectors(fs, source, bid) IN
                      IF ~parsed.ok
                      THEN except_Exception(frame, parsed.error)
                      ELSE IF parsed.samples = <<>>
                      THEN [frame EXCEPT !.pc = "complete_empty"]
                      ELSE [frame EXCEPT !.pc = IF file_id = None THEN "lookup"
                                                ELSE "insert",
                                         !.samples = parsed.samples,
                                         !.source_file_id = file_id,
                                         !.path = source]

\* Lines 195-199: the registry entry the samples are tagged with.
lookup_source_file_id(reg, tenant_id, path) ==
    LET listed == nasa_file_list(reg, "horizons", tenant_id, 1)
        hit == {k \in DOMAIN listed : listed[k].row.local_path = resolve(path)}
    IN IF hit = {} THEN None
       ELSE Some(listed[CHOOSE k \in hit : \A j \in hit : k <= j].id)

(***************************************************************************)
(* Inputs.                                                                 *)
(***************************************************************************)
Callers == {"c1", "c2"}
JobIds == 1..MaxJobs

\* Job ids a caller names when the table holds one job: that job, and an id
\* no row has.
CallJobIds == {1, 2}

\* tenant_id arguments: a blank one (the default tenant) and a padded "b".
TenantB == <<"b">>
TenantInputs == {<<" ">>, <<" ", "b">>}

\* The tenant_id the job of the one-job specifications is inserted under.
JobTenantInputs == {<<"b", " ">>}

PyNone == [kind |-> "None", val |-> RawText(<<>>)]
PyStr(text) == [kind |-> "str", val |-> text]
PyDict(d) == [kind |-> "dict", val |-> d]

Jupiter == <<"j">>
Mars == <<"m">>

\* payload_json arguments: absent, "", text that is not JSON, a JSON array,
\* {}, the payload of the repository's test, a payload whose source and
\* body_id are blanks, a payload that names a file_id.
PayloadInputs ==
    {PyNone,
     PyStr(RawText(<<>>)),
     PyStr(RawText(<<"{">>)),
     PyStr(JsonText(JsonArray)),
     PyDict(EmptyDict),
     PyDict(JsonObject(Some(PathTwo), Some(Jupiter), Some(7))),
     PyDict(JsonObject(Some(<<" ">>), Some(<<" ">>), None))}

Checksum == <<"s", "h", "a">>

\* The registry before the job runs: empty, or the job's file registered as a
\* horizons file under the job's tenant.
RegistryInputs ==
    {<<>>, nasa_file_insert(<<>>, "horizons", PathTwo, Some(Checksum), None, None, TenantB)}

SourceInputs == {<<>>, PathTwo, PathZero, PathBad, PathMissing}
ErrorInputs == {<<"boom">>}

(***************************************************************************)
(* Actions.                                                                *)
(***************************************************************************)
\* The state after construction: the schema exists and the tables are empty.
Init ==
    /\ ingestion_jobs = <<>>
    /\ ephemeris_samples = <<>>
    /\ nasa_file_registry = <<>>
    /\ disk = InitialDisk
    /\ now = 0
    /\ call = [c \in Callers |-> Idle]
    /\ ret = [c \in Callers |-> NoOutcome]
    /\ added = [c \in Callers |-> <<>>]
    /\ library_documents = <<>>
    /\ astral_body_catalog = <<>>
    /\ astral_observer_sites = <<>>
    /\ occlusion_events = <<>>
    /\ answer = NoAnswer

\* The state after one job was inserted with the default status.
InitOneJob ==
    /\ \E s \in SourceInputs, p \in PayloadInputs, t \in JobTenantInputs :
          ingestion_jobs = ingestion_job_insert(<<>>, "horizons", s, p, "pending", t, 0)
    /\ ephemeris_samples = <<>>
    /\ nasa_file_registry \in RegistryInputs
    /\ disk = InitialDisk
    /\ now = 0
    /\ call = [c \in Callers |-> Idle]
    /\ ret = [c \in Callers |-> NoOutcome]
    /\ added = [c \in Callers |-> <<>>]
    /\ library_documents = <<>>
    /\ astral_body_catalog = <<>>
    /\ astral_observer_sites = <<>>
    /\ occlusion_events = <<>>
    /\ answer = NoAnswer

\* The wall clock advances.
Tick ==
    /\ now < MaxNow
    /\ now' = now + 1
    /\ UNCHANGED catalog
    /\ UNCHANGED <<ingestion_jobs, ephemeris_samples, nasa_file_registry, disk,
                   call, ret, added>>

\* db.ingestion_job_insert(job_type, source, payload_json, status, tenant_id)
JobInsert(source, payload_json, status, tenant_id) ==
    /\ Len(ingestion_jobs) < MaxJobs
    /\ ingestion_jobs' = ingestion_job_insert(ingestion_jobs, "horizons", source,
                                              payload_json, status, tenant_id, now)
    /\ UNCHANGED catalog
    /\ UNCHANGED <<ephemeris_samples, nasa_file_registry, disk, now, call, ret, added>>

\* A start is attempted only while the job has attempts left in the model.
AttemptsLeft(job_id, tenant_id) ==
    \A i \in DOMAIN ingestion_jobs :
        ingestion_job_start_where(i, ingestion_jobs[i], job_id, Tenant(tenant_id))
            => ingestion_jobs[i].attempt_count < MaxAttempts

\* Caller c calls db.ingestion_job_start(job_id, tenant_id) directly.
DirectStart(c, job_id, tenant_id) ==
    /\ call[c].pc = "idle"
    /\ AttemptsLeft(job_id, tenant_id)
    /\ LET r == ingestion_job_start(ingestion_jobs, job_id, tenant_id, now) IN
       /\ ingestion_jobs' = r.rows
       /\ ret' = [ret EXCEPT ![c] = Outcome("start", job_id, tenant_id,
                                   IF r.ret THEN "True" ELSE "False", 0, None)]
    /\ added' = [added EXCEPT ![c] = <<>>]
    /\ UNCHANGED catalog
    /\ UNCHANGED <<ephemeris_samples, nasa_file_registry, disk, now, call>>

\* Anyone calls db.ingestion_job_complete(job_id, tenant_id) directly.
DirectComplete(job_id, tenant_id) ==
    /\ ingestion_jobs' = ingestion_job_complete(ingestion_jobs, job_id, tenant_id, now)
    /\ UNCHANGED catalog
    /\ UNCHANGED <<ephemeris_samples, nasa_file_registry, disk, now, call, ret, added>>

\* Anyone calls db.ingestion_job_fail(job_id, error_text, tenant_id) directly.
DirectFail(job_id, error_text, tenant_id) ==
    /\ ingestion_jobs' = ingestion_job_fail(ingestion_jobs, job_id, error_text, tenant_id, now)
    /\ UNCHANGED catalog
    /\ UNCHANGED <<ephemeris_samples, nasa_file_registry, disk, now, call, ret, added>>

\* Line 164: caller c enters run_ingestion_job(job_id, body_id) of a runner
\* built with tenant_id; the method's first statement is the start.
RunStart(c, job_id, tenant_id, body_id) ==
    /\ call[c].pc = "idle"
    /\ AttemptsLeft(job_id, tenant_id)
    /\ LET r == ingestion_job_start(ingestion_jobs, job_id, tenant_id, now) IN
       /\ ingestion_jobs' = r.rows
       /\ call' = [call EXCEPT ![c] =
                      [Idle EXCEPT !.pc = IF r.ret THEN "started" ELSE "rejected",
                                   !.job_id = job_id, !.tenant_id = tenant_id,
                                   !.body_id = body_id]]
    /\ ret' = [ret EXCEPT ![c] = NoOutcome]
    /\ added' = [added EXCEPT ![c] = <<>>]
    /\ UNCHANGED catalog
    /\ UNCHANGED <<ephemeris_samples, nasa_file_registry, disk, now>>

\* Lines 165-167: the start was refused; report the job's stored status.
RunRejected(c) ==
    /\ call[c].pc = "rejected"
    /\ LET f == call[c]
           job == ingestion_job_get(ingestion_jobs, f.job_id, f.tenant_id)
           status == IF job = None THEN "not_found" ELSE Get(job).status
       IN ret' = [ret EXCEPT ![c] = Outcome("result", f.job_id, f.tenant_id, status,
                                            0, Some(<<"Job not startable">>))]
    /\ call' = [call EXCEPT ![c] = Idle]
    /\ UNCHANGED catalog
    /\ UNCHANGED <<ingestion_jobs, ephemeris_samples, nasa_file_registry, disk, now, added>>

\* Lines 168-192: fetch the job, decode, resolve, parse.  An exception raised
\* outside the try block leaves the method.
RunLoad(c) ==
    /\ call[c].pc = "started"
    /\ LET f == run_load(call[c], ingestion_jobs, disk) IN
       IF f.pc = "raise"
       THEN /\ call' = [call EXCEPT ![c] = Idle]
            /\ ret' = [ret EXCEPT ![c] = Outcome("raised", f.job_id, f.tenant_id,
                                                 "AttributeError", 0, Some(f.err))]
       ELSE /\ call' = [call EXCEPT ![c] = f]
            /\ UNCHANGED ret
    /\ UNCHANGED catalog
    /\ UNCHANGED <<ingestion_jobs, ephemeris_samples, nasa_file_registry, disk, now, added>>

\* Lines 194-199: no file_id in the payload; look the source file up.
RunLookup(c) ==
    /\ call[c].pc = "lookup"
    /\ call' = [call EXCEPT ![c].pc = "insert",
                            ![c].source_file_id =
                                lookup_source_file_id(nasa_file_registry,
                                                      call[c].tenant_id, call[c].path)]
    /\ UNCHANGED catalog
    /\ UNCHANGED <<ingestion_jobs, ephemeris_samples, nasa_file_registry, disk, now,
                   ret, added>>

\* Lines 201-215: one iteration of the insert loop.
RunInsert(c) ==
    /\ call[c].pc = "insert"
    /\ call[c].count < Len(call[c].samples)
    /\ LET f == call[c]
           s == f.samples[f.count + 1]
       IN ephemeris_samples' =
              ephemeris_sample_insert(ephemeris_samples, s.body_id, s.epoch_utc,
                                      s.position, s.velocity, "J2000",
                                      f.source_file_id, f.tenant_id)
    /\ call' = [call EXCEPT ![c].count = @ + 1]
    /\ added' = [added EXCEPT ![c] = Append(@, Len(ephemeris_samples) + 1)]
    /\ UNCHANGED catalog
    /\ UNCHANGED <<ingestion_jobs, nasa_file_registry, disk, now, ret>>

\* Lines 191-192 and 220-221: complete the job and return.
RunComplete(c) ==
    /\ \/ call[c].pc = "complete_empty"
       \/ call[c].pc = "insert" /\ call[c].count = Len(call[c].samples)
    /\ LET f == call[c] IN
       /\ ingestion_jobs' = ingestion_job_complete(ingestion_jobs, f.job_id, f.tenant_id, now)
       /\ ret' = [ret EXCEPT ![c] =
                     Outcome("result", f.job_id, f.tenant_id, "completed",
                             IF f.pc = "complete_empty" THEN 0 ELSE f.count, None)]
    /\ call' = [call EXCEPT ![c] = Idle]
    /\ UNCHANGED catalog
    /\ UNCHANGED <<ephemeris_samples, nasa_file_registry, disk, now, added>>

\* Lines 170-171, 182-183, 186-187 and 223-224: fail the job and return.
RunFail(c) ==
    /\ call[c].pc = "fail"
    /\ LET f == call[c] IN
       /\ ingestion_jobs' = ingestion_job_fail(ingestion_jobs, f.job_id, f.err, f.tenant_id, now)
       /\ ret' = [ret EXCEPT ![c] = Outcome("result", f.job_id, f.tenant_id, "failed",
                                            0, Some(f.res_err))]
    /\ call' = [call EXCEPT ![c] = Idle]
    /\ UNCHANGED catalog
    /\ UNCHANGED <<ephemeris_samples, nasa_file_registry, disk, now, added>>

(***************************************************************************)
(* The storage engine's inserts and reads over all tenant-scoped tables.   *)
(* A read changes nothing, so a run of this part is a sequence of inserts  *)
(* followed by one read, whose result is kept in answer.                   *)
(***************************************************************************)
\* The tables, by name.
Database ==
    [library_documents |-> library_documents,
     astral_body_catalog |-> astral_body_catalog,
     astral_observer_sites |-> astral_observer_sites,
     nasa_file_registry |-> nasa_file_registry,
     ephemeris_samples |-> ephemeris_samples,
     occlusion_events |-> occlusion_events,
     ingestion_jobs |-> ingestion_jobs]

\* Rows inserted so far.
Inserted ==
    Len(library_documents) + Len(astral_body_catalog) + Len(astral_observer_sites)
    + Len(nasa_file_registry) + Len(ephemeris_samples) + Len(occlusion_events)
    + Len(ingestion_jobs)

Room == answer = NoAnswer /\ Inserted < MaxInserts

\* tenant_id arguments of the inserts: a padded "b" and the empty string.
InsertTenantInputs == {<<"b", " ">>, <<>>}

Document(document_type, url, type_metadata, lat, lon) ==
    [document_type |-> document_type, url |-> url, type_metadata |-> type_metadata,
     lat |-> lat, lon |-> lon]

DocumentInputs ==
    {Document("video", Some(<<"A", "b">>), None, Some(0), Some(0)),
     Document("paper", None, Some(<<"a">>), Some(0), Some(90))}

BodyInputs == {[body_id |-> Jupiter, kind |-> "planet"], [body_id |-> Mars, kind |-> "moon"]}
Site == <<"s">>
EpochInputs == {1, 2}
RowIds == 1..MaxInserts
LimitInputs == {1, 100}

DocumentInsert(d, tenant_id) ==
    /\ Room
    /\ library_documents' =
          library_document_insert(library_documents, d.document_type, d.url,
                                  d.type_metadata, tenant_id, d.lat, d.lon)
    /\ UNCHANGED <<astral_body_catalog, astral_observer_sites, occlusion_events, answer>>
    /\ UNCHANGED <<ingestion_jobs, ephemeris_samples, nasa_file_registry, disk, now,
                   call, ret, added>>

BodyInsert(b, tenant_id) ==
    /\ Room
    /\ astral_body_catalog' =
          astral_body_insert(astral_body_catalog, b.body_id, b.kind, tenant_id)
    /\ UNCHANGED <<library_documents, astral_observer_sites, occlusion_events, answer>>
    /\ UNCHANGED <<ingestion_jobs, ephemeris_samples, nasa_file_registry, disk, now,
                   call, ret, added>>

SiteInsert(site_id, body_id, tenant_id) ==
    /\ Room
    /\ astral_observer_sites' =
          astral_observer_site_insert(astral_observer_sites, site_id, body_id, tenant_id)
    /\ UNCHANGED <<library_documents, astral_body_catalog, occlusion_events, answer>>
    /\ UNCHANGED <<ingestion_jobs, ephemeris_samples, nasa_file_registry, disk, now,
                   call, ret, added>>

FileInsert(file_type, local_path, tenant_id) ==
    /\ Room
    /\ nasa_file_registry' =
          nasa_file_insert(nasa_file_registry, file_type, local_path,
                           Some(Checksum), None, None, tenant_id)
    /\ UNCHANGED catalog
    /\ UNCHANGED <<ingestion_jobs, ephemeris_samples, disk, now, call, ret, added>>

SampleInsert(body_id, epoch_utc, tenant_id) ==
    /\ Room
    /\ ephemeris_samples' =
          ephemeris_sample_insert(ephemeris_samples, body_id, epoch_utc, <<1, 2, 3>>,
                                  <<4, 5, 6>>, "J2000", None, tenant_id)
    /\ UNCHANGED catalog
    /\ UNCHANGED <<ingestion_jobs, nasa_file_registry, disk, now, call, ret, added>>

EventInsert(epoch_utc, target_body_id, tenant_id) ==
    /\ Room
    /\ occlusion_events' =
          occlusion_event_insert(occlusion_events, epoch_utc, target_body_id, tenant_id)
    /\ UNCHANGED <<library_documents, astral_body_catalog, astral_observer_sites, answer>>
    /\ UNCHANGED <<ingestion_jobs, ephemeris_samples, nasa_file_registry, disk, now,
                   call, ret, added>>

\* ingestion_job_insert with the default status, among the other inserts.
PendingJobInsert(source, tenant_id) ==
    /\ Room
    /\ ingestion_jobs' = ingestion_job_insert(ingestion_jobs, "horizons", source,
                                              PyNone, "pending", tenant_id, now)
    /\ UNCHANGED catalog
    /\ UNCHANGED <<ephemeris_samples, nasa_file_registry, disk, now, call, ret, added>>

\* The rows a get returned: none, or the one row.
AsRows(o) == IF o = None THEN <<>> ELSE <<Get(o)>>

\* The results the read operation op may give on the tables db.
Select(op, a, tenant_id, db) ==
    CASE op = "library_document_get" ->
            {AsRows(library_document_get(db.library_documents, a.doc_id, tenant_id))}
      [] op = "library_document_list" ->
            {library_document_list(db.library_documents, a.document_type, tenant_id,
                                   a.limit)}
      [] op = "library_document_search" ->
            {library_document_search(db.library_documents, a.document_type, a.q, a.lat,
                                     a.lon, a.distance_mi, tenant_id, a.limit)}
      [] op = "astral_body_get" ->
            {AsRows(o) : o \in astral_body_get(db.astral_body_catalog, a.body_id,
                                               tenant_id)}
      [] op = "astral_body_list" ->
            astral_body_list(db.astral_body_catalog, a.kind, tenant_id, a.limit)
      [] op = "astral_observer_site_get" ->
            {AsRows(o) : o \in astral_observer_site_get(db.astral_observer_sites,
                                                        a.site_id, tenant_id)}
      [] op = "astral_observer_site_list" ->
            astral_observer_site_list(db.astral_observer_sites, a.body_id, tenant_id,
                                      a.limit)
      [] op = "nasa_file_get" ->
            {AsRows(nasa_file_get(db.nasa_file_registry, a.file_id, tenant_id))}
      [] op = "nasa_file_list" ->
            {nasa_file_list(db.nasa_file_registry, a.file_type, tenant_id, a.limit)}
      [] op = "ephemeris_sample_get" ->
            {AsRows(ephemeris_sample_get(db.ephemeris_samples, a.body_id, a.epoch_utc,
                                         tenant_id))}
      [] op = "ephemeris_sample_list_near_epoch" ->
            ephemeris_sample_list_near_epoch(db.ephemeris_samples, a.body_id,
                                             a.epoch_utc, tenant_id, a.limit)
      [] op = "occlusion_event_list" ->
            {occlusion_event_list(db.occlusion_events, a.epoch_utc, a.target_body_id,
                                  tenant_id, a.limit)}
      [] op = "ingestion_job_get" ->
            LET job == ingestion_job_get(db.ingestion_jobs, a.job_id, tenant_id)
            IN {IF job = None THEN <<>> ELSE <<[id |-> a.job_id, row |-> Get(job)]>>}
      [] op = "ingestion_job_list" ->
            {ingestion_job_list(db.ingestion_jobs, a.status, a.job_type, tenant_id,
                                a.limit)}

\* No read was made yet.
Unread == answer = NoAnswer

\* The read operation op is called and its result kept.
Read(op, a, tenant_id) ==
    /\ \E rows \in Select(op, a, tenant_id, Database) :
          answer' = [op |-> op, args |-> a, tenant_id |-> tenant_id, rows |-> rows]
    /\ UNCHANGED <<library_documents, astral_body_catalog, astral_observer_sites,
                   occlusion_events>>
    /\ UNCHANGED <<ingestion_jobs, ephemeris_samples, nasa_file_registry, disk, now,
                   call, ret, added>>

DocumentGet(doc_id, tenant_id) ==
    /\ Unread
    /\ Read("library_document_get", [doc_id |-> doc_id], tenant_id)

DocumentList(document_type, tenant_id, limit) ==
    /\ Unread
    /\ Read("library_document_list", [document_type |-> document_type, limit |-> limit],
            tenant_id)

Search(document_type, q, lat, lon, distance_mi, limit) ==
    [document_type |-> document_type, q |-> q, lat |-> lat, lon |-> lon,
     distance_mi |-> distance_mi, limit |-> limit]

\* library_document_search arguments: a text search, the probe (0, 0) with
\* each kind of distance_mi, and a probe without a longitude.
SearchInputs ==
    {Search("", <<"a">>, None, None, NoDistance, 100),
     Search("", <<>>, Some(0), Some(0), Miles(0), 100),
     Search("", <<>>, Some(0), Some(0), Miles(7000), 1),
     Search("video", <<>>, Some(0), Some(0), Infinite, 100),
     Search("", <<>>, Some(0), Some(0), NotANumber, 100),
     Search("paper", <<>>, Some(0), None, Miles(0), 100)}

DocumentSearch(s, tenant_id) ==
    /\ Unread
    /\ Read("library_document_search", s, tenant_id)

BodyGet(body_id, tenant_id) ==
    /\ Unread
    /\ Read("astral_body_get", [body_id |-> body_id], tenant_id)

BodyList(kind, tenant_id, limit) ==
    /\ Unread
    /\ Read("astral_body_list", [kind |-> kind, limit |-> limit], tenant_id)

SiteGet(site_id, tenant_id) ==
    /\ Unread
    /\ Read("astral_observer_site_get", [site_id |-> site_id], tenant_id)

SiteList(body_id, tenant_id, limit) ==
    /\ Unread
    /\ Read("astral_observer_site_list", [body_id |-> body_id, limit |-> limit], tenant_id)

FileGet(file_id, tenant_id) ==
    /\ Unread
    /\ Read("nasa_file_get", [file_id |-> file_id], tenant_id)

FileList(file_type, tenant_id, limit) ==
    /\ Unread
    /\ Read("nasa_file_list", [file_type |-> file_type, limit |-> limit], tenant_id)

SampleGet(body_id, epoch_utc, tenant_id) ==
    /\ Unread
    /\ Read("ephemeris_sample_get", [body_id |-> body_id, epoch_utc |-> epoch_utc],
            tenant_id)

SampleListNearEpoch(body_id, epoch_utc, tenant_id, limit) ==
    /\ Unread
    /\ Read("ephemeris_sample_list_near_epoch",
            [body_id |-> body_id, epoch_utc |-> epoch_utc, limit |-> limit], tenant_id)

EventList(epoch_utc, target_body_id, tenant_id, limit) ==
    /\ Unread
    /\ Read("occlusion_event_list",
            [epoch_utc |-> epoch_utc, target_body_id |-> target_body_id, limit |-> limit],
            tenant_id)

JobGet(job_id, tenant_id) ==
    /\ Unread
    /\ Read("ingestion_job_get", [job_id |-> job_id], tenant_id)

JobList(status, job_type, tenant_id, limit) ==
    /\ Unread
    /\ Read("ingestion_job_list",
            [status |-> status, job_type |-> job_type, limit |-> limit], tenant_id)

\* The steps of run_ingestion_job calls.
Run ==
    \/ \E c \in Callers, j \in CallJobIds, t \in TenantInputs : RunStart(c, j, t, Mars)
    \/ \E c \in Callers : RunRejected(c)
    \/ \E c \in Callers : RunLoad(c)
    \/ \E c \in Callers : RunLookup(c)
    \/ \E c \in Callers : RunInsert(c)
    \/ \E c \in Callers : RunComplete(c)
    \/ \E c \in Callers : RunFail(c)

\* One job, run_ingestion_job calls racing with direct complete and fail calls.
Next ==
    \/ \E j \in CallJobIds, t \in TenantInputs : DirectComplete(j, t)
    \/ \E j \in CallJobIds, e \in ErrorInputs, t \in TenantInputs : DirectFail(j, e, t)
    \/ Run

Spec == InitOneJob /\ [][Next]_vars

\* One job and nothing but run_ingestion_job calls racing on it.
SpecRace == InitOneJob /\ [][Run]_vars

\* The storage engine's job operations on their own, with the clock.
NextApi ==
    \/ Tick
    \/ \E t \in TenantInputs : JobInsert(PathTwo, PyNone, "pending", t)
    \/ \E c \in Callers, j \in JobIds, t \in TenantInputs : DirectStart(c, j, t)
    \/ \E j \in JobIds, t \in TenantInputs : DirectComplete(j, t)
    \/ \E j \in JobIds, e \in ErrorInputs, t \in TenantInputs : DirectFail(j, e, t)

SpecApi == Init /\ [][NextApi]_vars

\* Each caller calls ingestion_job_start once on the one job.
StartOnce(c, tenant_id) ==
    /\ ret[c].kind = "none"
    /\ DirectStart(c, 1, tenant_id)

\* One pending job and two callers that each start it once, in any order.
NextStartRace ==
    \/ Tick
    \/ \E c \in Callers, t \in TenantInputs : StartOnce(c, t)

SpecStartRace == InitOneJob /\ [][NextStartRace]_vars

\* The jobs of the lifecycle specification, as (source, payload_json): a file
\* that ingests, a missing file, and a missing file with no payload.
LifecycleJobInputs ==
    {<<PathTwo, PyDict(EmptyDict)>>, <<PathMissing, PyDict(EmptyDict)>>,
     <<PathMissing, PyNone>>}

\* The state after one of these jobs was inserted with the default status.
InitLifecycle ==
    /\ \E j \in LifecycleJobInputs, t \in JobTenantInputs :
          ingestion_jobs = ingestion_job_insert(<<>>, "horizons", j[1], j[2],
                                                "pending", t, 0)
    /\ ephemeris_samples = <<>>
    /\ nasa_file_registry = <<>>
    /\ disk = InitialDisk
    /\ now = 0
    /\ call = [c \in Callers |-> Idle]
    /\ ret = [c \in Callers |-> NoOutcome]
    /\ added = [c \in Callers |-> <<>>]
    /\ library_documents = <<>>
    /\ astral_body_catalog = <<>>
    /\ astral_observer_sites = <<>>
    /\ occlusion_events = <<>>
    /\ answer = NoAnswer

\* One job under every job operation: direct start, complete and fail calls
\* and run_ingestion_job calls, with the clock running.
NextLifecycle ==
    \/ Tick
    \/ \E t \in TenantInputs : DirectStart("c1", 1, t)
    \/ \E t \in TenantInputs : DirectComplete(1, t)
    \/ \E e \in ErrorInputs, t \in TenantInputs : DirectFail(1, e, t)
    \/ Run

SpecLifecycle == InitLifecycle /\ [][NextLifecycle]_vars

\* Inserts under two tenants into every tenant-scoped table, then a read.
NextTenant ==
    \/ \E d \in DocumentInputs, t \in InsertTenantInputs : DocumentInsert(d, t)
    \/ \E b \in BodyInputs, t \in InsertTenantInputs : BodyInsert(b, t)
    \/ \E t \in InsertTenantInputs : SiteInsert(Site, Mars, t)
    \/ \E t \in InsertTenantInputs : FileInsert("horizons", PathTwo, t)
    \/ \E e \in EpochInputs, t \in InsertTenantInputs : SampleInsert(Mars, e, t)
    \/ \E t \in InsertTenantInputs : EventInsert(1, Mars, t)
    \/ \E t \in InsertTenantInputs : PendingJobInsert(PathTwo, t)
    \/ \E i \in RowIds, t \in TenantInputs : DocumentGet(i, t)
    \/ \E d \in {"", "video"}, t \in TenantInputs, n \in LimitInputs : DocumentList(d, t, n)
    \/ \E s \in SearchInputs, t \in TenantInputs : DocumentSearch(s, t)
    \/ \E b \in {Jupiter, Mars}, t \in TenantInputs : BodyGet(b, t)
    \/ \E k \in {"", "moon"}, t \in TenantInputs, n \in LimitInputs : BodyList(k, t, n)
    \/ \E t \in TenantInputs : SiteGet(Site, t)
    \/ \E b \in {<<>>, Mars}, t \in TenantInputs, n \in LimitInputs : SiteList(b, t, n)
    \/ \E i \in RowIds, t \in TenantInputs : FileGet(i, t)
    \/ \E f \in {"", "horizons"}, t \in TenantInputs, n \in LimitInputs : FileList(f, t, n)
    \/ \E e \in EpochInputs, t \in TenantInputs : SampleGet(Mars, e, t)
    \/ \E t \in TenantInputs, n \in LimitInputs : SampleListNearEpoch(Mars, 1, t, n)
    \/ \E e \in {None, Some(1)}, b \in {<<>>, Mars}, t \in TenantInputs :
          EventList(e, b, t, 100)
    \/ \E i \in RowIds, t \in TenantInputs : JobGet(i, t)
    \/ \E s \in {"", "pending"}, t \in TenantInputs : JobList(s, "", t, 100)

SpecTenant == Init /\ [][NextTenant]_vars

(***************************************************************************)
(* library_document_search with a location filter: documents with and      *)
(* without stored coordinates are inserted, then one search is made.       *)
(***************************************************************************)
LocatedInputs ==
    {Document("video", None, None, Some(0), Some(0)),
     Document("video", None, None, Some(0), Some(90)),
     Document("video", None, None, None, None),
     Document("video", None, None, Some(0), None),
     Document("paper", Some(<<"A", "b">>), None, Some(0), Some(0))}

\* Probes with a distance_mi that float() accepts: 0 (same bucket), a radius
\* that reaches a quarter turn, a radius that does not, a negative one.
ProbeInputs ==
    {Search("", <<>>, Some(0), Some(0), Miles(0), 100),
     Search("", <<>>, Some(0), Some(90), Miles(0), 100),
     Search("", <<>>, Some(0), Some(0), Miles(7000), 100),
     Search("", <<>>, Some(0), Some(0), Miles(7000), 1),
     Search("", <<>>, Some(0), Some(90), Miles(1), 100),
     Search("", <<>>, Some(0), Some(0), Miles(-1), 100),
     Search("", <<>>, Some(0), Some(0), Infinite, 100),
     Search("", <<>>, Some(0), Some(0), Miles(0), 1),
     Search("paper", <<"a">>, Some(0), Some(0), Miles(7000), 1),
     Search("", <<>>, Some(0), Some(0), Miles(7000), 0),
     Search("video", <<>>, None, None, NoDistance, 1)}

NextSearch ==
    \/ \E d \in LocatedInputs, t \in InsertTenantInputs : DocumentInsert(d, t)
    \/ \E s \in ProbeInputs, t \in TenantInputs : DocumentSearch(s, t)

SpecSearch == Init /\ [][NextSearch]_vars

(***************************************************************************)
(* run_ingestion_job on a job whose source file has entries in the         *)
(* registry: the registry is filled before the job is run.                 *)
(***************************************************************************)
Registered(reg, file_type, local_path, tenant_id) ==
    nasa_file_insert(reg, file_type, local_path, Some(Checksum), None, None, tenant_id)

OneEntry == Registered(<<>>, "horizons", PathTwo, TenantB)

\* No entry; the source file alone; the source file and then another file, and
\* the reverse; the source file and then a kernel, another tenant's entry, or
\* the same file again.
LookupRegistryInputs ==
    {<<>>,
     OneEntry,
     Registered(OneEntry, "horizons", PathZero, TenantB),
     Registered(Registered(<<>>, "horizons", PathZero, TenantB), "horizons", PathTwo,
                TenantB),
     Registered(OneEntry, "spk", PathTwo, TenantB),
     Registered(OneEntry, "horizons", PathTwo, <<>>),
     Registered(OneEntry, "horizons", PathTwo, TenantB)}

LookupPayloadInputs ==
    {PyDict(EmptyDict), PyDict(JsonObject(None, None, Some(7)))}

InitLookup ==
    /\ \E s \in {PathTwo, RelativeTwo, PathBad}, p \in LookupPayloadInputs,
          t \in JobTenantInputs :
          ingestion_jobs = ingestion_job_insert(<<>>, "horizons", s, p, "pending", t, 0)
    /\ ephemeris_samples = <<>>
    /\ nasa_file_registry \in LookupRegistryInputs
    /\ disk = InitialDisk
    /\ now = 0
    /\ call = [c \in Callers |-> Idle]
    /\ ret = [c \in Callers |-> NoOutcome]
    /\ added = [c \in Callers |-> <<>>]
    /\ library_documents = <<>>
    /\ astral_body_catalog = <<>>
    /\ astral_observer_sites = <<>>
    /\ occlusion_events = <<>>
    /\ answer = NoAnswer

SpecLookup == InitLookup /\ [][Run]_vars

(***************************************************************************)
(* The pure functions _geohash_encode and _haversine_mi, applied to        *)
(* arguments drawn from bounded sets.                                      *)
(***************************************************************************)
GeoLatInputs == {-90, -45, 0, 45, 90}
GeoLonInputs == {-180, -90, -1, 0, 90, 180}
QuarterLats == {-90, 0, 90}
QuarterLons == {-180, -90, 0, 90, 180}

GeohashArgs ==
    {[fn |-> "geohash_encode", lat |-> lat, lon |-> lon, precision |-> n] :
        lat \in GeoLatInputs, lon \in GeoLonInputs, n \in 0..MaxPrecision}
HaversineArgs ==
    {[fn |-> "haversine_mi", lat1 |-> lat1, lon1 |-> lon1, lat2 |-> lat2, lon2 |-> lon2] :
        lat1 \in QuarterLats, lon1 \in QuarterLons, lat2 \in QuarterLats,
        lon2 \in QuarterLons}

\* A call of one of the two functions: its arguments and, once op names the
\* function, what it returned.
Applied(op, a, hash, miles) ==
    [op |-> op, args |-> a, tenant_id |-> <<>>, rows |-> <<>>, hash |-> hash,
     miles |-> miles]

InitGeo ==
    /\ ingestion_jobs = <<>>
    /\ ephemeris_samples = <<>>
    /\ nasa_file_registry = <<>>
    /\ disk = InitialDisk
    /\ now = 0
    /\ call = [c \in Callers |-> Idle]
    /\ ret = [c \in Callers |-> NoOutcome]
    /\ added = [c \in Callers |-> <<>>]
    /\ library_documents = <<>>
    /\ astral_body_catalog = <<>>
    /\ astral_observer_sites = <<>>
    /\ occlusion_events = <<>>
    /\ \E a \in GeohashArgs \cup HaversineArgs : answer = Applied("none", a, <<>>, 0)

GeoFrame ==
    /\ UNCHANGED <<library_documents, astral_body_catalog, astral_observer_sites,
                   occlusion_events>>
    /\ UNCHANGED <<ingestion_jobs, ephemeris_samples, nasa_file_registry, disk, now,
                   call, ret, added>>

GeohashEncode ==
    /\ answer.op = "none"
    /\ answer.args.fn = "geohash_encode"
    /\ answer' = Applied("geohash_encode", answer.args,
                         geohash_encode(answer.args.lat, answer.args.lon,
                                        answer.args.precision), 0)
    /\ GeoFrame

HaversineMi ==
    /\ answer.op = "none"
    /\ answer.args.fn = "haversine_mi"
    /\ answer' = Applied("haversine_mi", answer.args, <<>>,
                         haversine_mi(answer.args.lat1, answer.args.lon1,
                                      answer.args.lat2, answer.args.lon2))
    /\ GeoFrame

NextGeo == GeohashEncode \/ HaversineMi

SpecGeo == InitGeo /\ [][NextGeo]_vars

(***************************************************************************)
(* NasaIngestionRunner.register_file and validate_checksum.  The checksum  *)
(* column holds None or the text of a digest.  SHA-256 is taken to be free *)
(* of collisions on the file contents of the model: the digest of a        *)
(* content is a text that names it, and it is never the empty text.        *)
(***************************************************************************)
FileContents ==
    <<InitialDisk[PathTwo], InitialDisk[PathZero], InitialDisk[PathBad], <<>>>>
HexDigits == <<"0", "1", "2", "3">>

\* hashlib.new("sha256") over the bytes read, hexdigest()
hexdigest(data) ==
    LET k == CHOOSE i \in DOMAIN FileContents : FileContents[i] = data
    IN <<"e", HexDigits[k]>>

\* _file_checksum(path)
file_checksum(fs, path) == hexdigest(fs[resolve(path)])

FileTypes == {"spk", "pck", "lsk", "fk", "horizons"}

FileNotFoundError == "FileNotFoundError"
InvalidFileType == "ValueError"

\* The end of a call of the runner: what it raised ("" when it returned), the
\* value it returned and the registry it leaves.
Ended(raised, value, reg) == [raised |-> raised, value |-> value, reg |-> reg]

\* Mutant: the row is inserted before file_type is checked.
register_file_inserts_first(reg, fs, tenant_id, file_type, local_path, checksum) ==
    IF ~is_file(fs, local_path) THEN Ended(FileNotFoundError, 0, reg)
    ELSE LET computed == IF checksum = None THEN file_checksum(fs, local_path)
                         ELSE Get(checksum)
             after == nasa_file_insert(reg, file_type, resolve(local_path),
                                       Some(computed), None, None, tenant_id)
         IN IF file_type \notin FileTypes THEN Ended(InvalidFileType, 0, after)
            ELSE Ended("", Len(after), after)

\* register_file(file_type, local_path, checksum=...) of a runner of tenant_id
register_file(reg, fs, tenant_id, file_type, local_path, checksum) ==
    IF ~is_file(fs, local_path) THEN Ended(FileNotFoundError, 0, reg)
    ELSE IF file_type \notin FileTypes THEN Ended(InvalidFileType, 0, reg)
    ELSE LET computed == IF checksum = None THEN file_checksum(fs, local_path)
                         ELSE Get(checksum)
             after == nasa_file_insert(reg, file_type, resolve(local_path),
                                       Some(computed), None, None, tenant_id)
         IN Ended("", Len(after), after)

\* Mutant: the stored checksum is not compared with the file.
validate_checksum_trusts_stored(reg, fs, tenant_id, file_id) ==
    LET row == nasa_file_get(reg, file_id, tenant_id) IN
    IF row = None \/ Get(row).row.local_path = <<>> THEN FALSE
    ELSE IF ~is_file(fs, Get(row).row.local_path) THEN FALSE
    ELSE Get(row).row.checksum # None

\* validate_checksum(file_id) of a runner of tenant_id
validate_checksum(reg, fs, tenant_id, file_id) ==
    LET row == nasa_file_get(reg, file_id, tenant_id) IN
    IF row = None \/ Get(row).row.local_path = <<>> THEN FALSE
    ELSE IF ~is_file(fs, Get(row).row.local_path) THEN FALSE
    ELSE LET stored == IF Truthy(Get(row).row.checksum)
                       THEN Get(Get(row).row.checksum) ELSE <<>>
             computed == file_checksum(fs, Get(row).row.local_path)
         IN stored = computed

\* What the last call of the runner gave, kept in answer.
Returned(op, a, tenant_id, raised, id, valid) ==
    [op |-> op, args |-> a, tenant_id |-> tenant_id, rows |-> <<>>,
     raised |-> raised, id |-> id, valid |-> valid]

RegistryFrame ==
    /\ UNCHANGED <<library_documents, astral_body_catalog, astral_observer_sites,
                   occlusion_events>>
    /\ UNCHANGED <<ingestion_jobs, ephemeris_samples, now, call, ret, added>>

RegisterFile(file_type, local_path, checksum, tenant_id) ==
    /\ Len(nasa_file_registry) < MaxInserts
    /\ LET end == register_file(nasa_file_registry, disk, tenant_id, file_type,
                                local_path, checksum)
       IN /\ nasa_file_registry' = end.reg
          /\ answer' = Returned("register_file",
                                [file_type |-> file_type, local_path |-> local_path,
                                 checksum |-> checksum],
                                tenant_id, end.raised, end.value, FALSE)
    /\ UNCHANGED disk
    /\ RegistryFrame

\* nasa_file_insert called on the storage engine, without the runner.
RegistryInsert(local_path, checksum, tenant_id) ==
    /\ Len(nasa_file_registry) < MaxInserts
    /\ nasa_file_registry' =
          nasa_file_insert(nasa_file_registry, "horizons", local_path, checksum,
                           None, None, tenant_id)
    /\ answer' = NoAnswer
    /\ UNCHANGED disk
    /\ RegistryFrame

ValidateChecksum(file_id, tenant_id) ==
    /\ answer' = Returned("validate_checksum", [file_id |-> file_id], tenant_id, "", 0,
                          validate_checksum(nasa_file_registry, disk, tenant_id,
                                            file_id))
    /\ UNCHANGED <<nasa_file_registry, disk>>
    /\ RegistryFrame

\* Another program writes the file, or creates it.
FileWrite(path, data) ==
    /\ disk' = (path :> data) @@ disk
    /\ answer' = NoAnswer
    /\ UNCHANGED nasa_file_registry
    /\ RegistryFrame

\* Another program removes the file.
FileUnlink(path) ==
    /\ path \in DOMAIN disk
    /\ disk' = [q \in DOMAIN disk \ {path} |-> disk[q]]
    /\ answer' = NoAnswer
    /\ UNCHANGED nasa_file_registry
    /\ RegistryFrame

FileTypeInputs == {"horizons", "bsp"}
LocalPathInputs == {PathTwo, RelativeTwo, PathMissing, Cwd}
ChecksumInputs == {None, Some(Checksum)}
WriteInputs == {FileContents[1], FileContents[2]}

NextRegistry ==
    \/ \E f \in FileTypeInputs, p \in LocalPathInputs, k \in ChecksumInputs,
          t \in TenantInputs : RegisterFile(f, p, k, t)
    \/ \E p \in {RelativeTwo, <<>>}, t \in TenantInputs :
          RegistryInsert(p, None, t)
    \/ \E i \in 1..MaxInserts + 1, t \in TenantInputs : ValidateChecksum(i, t)
    \/ \E d \in WriteInputs : FileWrite(PathTwo, d)
    \/ FileUnlink(PathTwo)

SpecRegistry == Init /\ [][NextRegistry]_vars

(***************************************************************************)
(* NasaIngestionRunner.validate_coverage.  The returned dict is the set of *)
(* its keys and their values; a key that is absent has the value of the    *)
(* empty dict below.  An epoch text stands for its rank in the order of    *)
(* the texts, so sorted() is the order of the numbers.                     *)
(***************************************************************************)
NoCoverage ==
    [keys |-> {}, valid |-> FALSE, error |-> <<>>, sample_count |-> 0,
     valid_from |-> None, valid_to |-> None]

RECURSIVE sorted(_)
sorted(ns) ==
    IF ns = {} THEN <<>>
    ELSE LET least == CHOOSE n \in ns : \A o \in ns : n <= o
         IN <<least>> \o sorted(ns \ {least})

\* _infer_coverage_from_samples
infer_coverage_from_samples(samples) ==
    IF samples = <<>> THEN <<None, None>>
    ELSE LET epochs == sorted({samples[k].epoch_utc : k \in DOMAIN samples})
         IN <<Some(epochs[1]), Some(epochs[Len(epochs)])>>

\* return {"valid": False, "error": error}
Invalid(error) == [NoCoverage EXCEPT !.keys = {"valid", "error"}, !.error = error]

\* Mutant: the parser's exception leaves validate_coverage.
coverage_except_Exception_propagates(e) ==
    [NoCoverage EXCEPT !.keys = {"raised"}, !.error = e]

\* Lines 151-152: except Exception as e
coverage_except_Exception(e) == Invalid(e)

\* validate_coverage(file_id) of a runner of tenant_id
validate_coverage(reg, fs, tenant_id, file_id) ==
    LET found == nasa_file_get(reg, file_id, tenant_id) IN
    IF found = None THEN Invalid(<<"file not found">>)
    ELSE LET row == Get(found).row IN
         IF ~is_file(fs, row.local_path) THEN Invalid(<<"file not on disk">>)
         ELSE IF row.file_type = "horizons"
         THEN LET parsed == parse_horizons_vectors(fs, row.local_path, Earth) IN
              IF ~parsed.ok THEN coverage_except_Exception(parsed.error)
              ELSE LET inferred == infer_coverage_from_samples(parsed.samples) IN
                   [NoCoverage EXCEPT
                       !.keys = {"valid", "sample_count", "valid_from", "valid_to"},
                       !.valid = TRUE,
                       !.sample_count = Len(parsed.samples),
                       !.valid_from = IF inferred[1] # None THEN inferred[1]
                                      ELSE row.valid_from,
                       !.valid_to = IF inferred[2] # None THEN inferred[2]
                                    ELSE row.valid_to]
         ELSE [NoCoverage EXCEPT !.keys = {"valid", "valid_from", "valid_to"},
                                 !.valid = TRUE,
                                 !.valid_from = row.valid_from,
                                 !.valid_to = row.valid_to]

\* A file is entered in the registry with its declared coverage.
CoverageInsert(file_type, local_path, valid_from, valid_to, tenant_id) ==
    /\ Len(nasa_file_registry) < MaxInserts
    /\ nasa_file_registry' =
          nasa_file_insert(nasa_file_registry, file_type, local_path, Some(Checksum),
                           valid_from, valid_to, tenant_id)
    /\ answer' = NoAnswer
    /\ UNCHANGED disk
    /\ RegistryFrame

ValidateCoverage(file_id, tenant_id) ==
    /\ answer' = [op |-> "validate_coverage", args |-> [file_id |-> file_id],
                  tenant_id |-> tenant_id, rows |-> <<>>,
                  result |-> validate_coverage(nasa_file_registry, disk, tenant_id,
                                               file_id)]
    /\ UNCHANGED <<nasa_file_registry, disk>>
    /\ RegistryFrame

\* The source file is removed from the disk.
CoverageUnlink ==
    /\ FileUnlink(PathTwo)

CoverageInputs == {<<None, None>>, <<Some(7), Some(9)>>}

NextCoverage ==
    \/ \E f \in {"horizons", "spk"}, p \in {PathTwo, PathZero, PathBad},
          v \in CoverageInputs :
          CoverageInsert(f, p, v[1], v[2], TenantB)
    \/ \E i \in 1..MaxInserts + 1, t \in TenantInputs : ValidateCoverage(i, t)
    \/ CoverageUnlink

SpecCoverage == Init /\ [][NextCoverage]_vars

(***************************************************************************)
(* _parse_horizons_vectors applied to files drawn from a bounded set: a    *)
(* file is a sequence of blocks, each complete, lacking one of its three   *)
(* lines, or complete with a date that is no calendar date.                *)
(***************************************************************************)
BlockInputs ==
    {Block(Some(Epoch(2, TRUE)), Some(<<1, 2, 3>>), Some(<<4, 5, 6>>)),
     Block(Some(Epoch(1, TRUE)), Some(<<7, 8, 9>>), Some(<<1, 1, 1>>)),
     Block(None, Some(<<1, 2, 3>>), Some(<<4, 5, 6>>)),
     Block(Some(Epoch(3, TRUE)), None, Some(<<4, 5, 6>>)),
     Block(Some(Epoch(3, TRUE)), Some(<<1, 2, 3>>), None),
     Block(Some(Epoch(5, FALSE)), Some(<<1, 2, 3>>), Some(<<4, 5, 6>>))}

FileInputs == UNION {[1..n -> BlockInputs] : n \in 0..MaxBlocks}

InitParse ==
    /\ ingestion_jobs = <<>>
    /\ ephemeris_samples = <<>>
    /\ nasa_file_registry = <<>>
    /\ \E blocks \in FileInputs : disk = (PathTwo :> blocks)
    /\ now = 0
    /\ call = [c \in Callers |-> Idle]
    /\ ret = [c \in Callers |-> NoOutcome]
    /\ added = [c \in Callers |-> <<>>]
    /\ library_documents = <<>>
    /\ astral_body_catalog = <<>>
    /\ astral_observer_sites = <<>>
    /\ occlusion_events = <<>>
    /\ answer = NoAnswer

ParseHorizonsVectors(body_id) ==
    /\ answer = NoAnswer
    /\ answer' = [op |-> "parse_horizons_vectors", args |-> [body_id |-> body_id],
                  tenant_id |-> <<>>, rows |-> <<>>,
                  result |-> parse_horizons_vectors(disk, PathTwo, body_id)]
    /\ UNCHANGED <<nasa_file_registry, disk>>
    /\ RegistryFrame

NextParse == \E b \in {Earth, Mars} : ParseHorizonsVectors(b)

SpecParse == InitParse /\ [][NextParse]_vars

(***************************************************************************)
(* Two jobs on the same file, run and re-run, with storage-engine inserts  *)
(* that can raise (sqlite3.OperationalError: the database is locked by     *)
(* another writer, the disk is full).                                      *)
(***************************************************************************)
OperationalError == <<"database is locked">>

\* Lines 201-214 and 222: db.ephemeris_sample_insert raises in an iteration
\* of the insert loop; the except clause of the method catches it.
RunInsertRaises(c) ==
    /\ call[c].pc = "insert"
    /\ call[c].count < Len(call[c].samples)
    /\ call' = [call EXCEPT ![c] = except_Exception(call[c], OperationalError)]
    /\ UNCHANGED catalog
    /\ UNCHANGED <<ingestion_jobs, ephemeris_samples, nasa_file_registry, disk, now,
                   ret, added>>

InitTwoJobs ==
    /\ \E t \in JobTenantInputs :
          ingestion_jobs =
              ingestion_job_insert(
                  ingestion_job_insert(<<>>, "horizons", PathTwo, PyDict(EmptyDict),
                                       "pending", t, 0),
                  "horizons", PathTwo, PyDict(EmptyDict), "pending", t, 0)
    /\ ephemeris_samples = <<>>
    /\ nasa_file_registry \in RegistryInputs
    /\ disk = InitialDisk
    /\ now = 0
    /\ call = [c \in Callers |-> Idle]
    /\ ret = [c \in Callers |-> NoOutcome]
    /\ added = [c \in Callers |-> <<>>]
    /\ library_documents = <<>>
    /\ astral_body_catalog = <<>>
    /\ astral_observer_sites = <<>>
    /\ occlusion_events = <<>>
    /\ answer = NoAnswer

NextRetry ==
    \/ Run
    \/ \E c \in Callers : RunInsertRaises(c)

SpecRetry == InitTwoJobs /\ [][NextRetry]_vars

(***************************************************************************)
(* Properties.                                                             *)
(***************************************************************************)
\* The row a call names: a row with that id under that tenant.
Visible(jobs, job_id, tenant_id) ==
    job_id \in DOMAIN jobs /\ jobs[job_id].tenant_id = Tenant(tenant_id)

Startable(jobs, job_id, tenant_id) ==
    Visible(jobs, job_id, tenant_id) /\ jobs[job_id].status \in {"pending", "failed"}

\* C1: ingestion_job_start(job, tenant) returns true exactly when a job with
\* that id exists under that tenant with status pending or failed; when it
\* returns true the status becomes running; when it returns false no field of
\* any job row is modified.
C1_StartGuard ==
    [][\A c \in Callers, j \in JobIds, t \in TenantInputs :
          DirectStart(c, j, t) =>
              /\ (ret'[c].status = "True") <=> Startable(ingestion_jobs, j, t)
              /\ ret'[c].status = "True" => ingestion_jobs'[j].status = "running"
              /\ ret'[c].status = "False" => ingestion_jobs' = ingestion_jobs]_vars

\* C1 witness: one direct start was accepted and left the job running, another
\* was refused.
C1_Witness ==
    \E c, d \in Callers :
        /\ ret[c].kind = "start" /\ ret[c].status = "True"
        /\ ret[d].kind = "start" /\ ret[d].status = "False"
        /\ ret[d].job_id = ret[c].job_id
        /\ ret[c].job_id \in DOMAIN ingestion_jobs
        /\ ingestion_jobs[ret[c].job_id].status = "running"

\* A caller's start named the one job under the job's own tenant.
StartedTheJob(c) ==
    /\ ret[c].kind = "start"
    /\ Visible(ingestion_jobs, ret[c].job_id, ret[c].tenant_id)

\* C2: two callers start the same pending job concurrently: in every
\* interleaving exactly one call returns true, the other false, and
\* attempt_count ends 1 higher than before (the job was pending with 0).
C2_ExactlyOneStart ==
    /\ Cardinality({c \in Callers : StartedTheJob(c) /\ ret[c].status = "True"}) <= 1
    /\ ingestion_jobs[1].attempt_count <= 1
    /\ (\A c \in Callers : StartedTheJob(c)) =>
          /\ Cardinality({c \in Callers : ret[c].status = "True"}) = 1
          /\ Cardinality({c \in Callers : ret[c].status = "False"}) = 1
          /\ ingestion_jobs[1].attempt_count = 1

\* C2 witness: both callers have called start on the job under its tenant.
C2_Witness ==
    /\ \A c \in Callers : StartedTheJob(c)
    /\ ingestion_jobs[1].status = "running"

\* The source, the body_id and the parse of a job as the specification
\* resolves them: a payload that is absent, empty or no JSON object counts as
\* the empty object.
JobSource(job) == resolve_source(decode_payload(job.payload_json).val, job)
JobBodyId(job, body_id) == resolve_body_id(decode_payload(job.payload_json).val, body_id)
JobHasFile(job) == JobSource(job) # <<>> /\ is_file(disk, JobSource(job))
JobParse(job, body_id) ==
    parse_horizons_vectors(disk, JobSource(job), JobBodyId(job, body_id))

\* A call whose start succeeded is past line 164.
Running(c) == call[c].pc \notin {"idle", "rejected"}

\* The step in which the call of c, whose start had succeeded, ends.
Ends(c) == Running(c) /\ call'[c].pc = "idle"

\* C3: run_ingestion_job calls racing on one pending job whose source file
\* exists and parses to n samples: only the caller whose start succeeded
\* parses and inserts; n rows are added in all, one call returns completed
\* with samples_inserted = n, every other call returns 'Job not startable'
\* with samples_inserted = 0.
C3_Claim ==
    LET job == ingestion_jobs[1]
        parsed == JobParse(job, Mars)
        n == Len(parsed.samples)
    IN (JobHasFile(job) /\ parsed.ok) =>
          /\ Cardinality({c \in Callers : Running(c)}) <= 1
          /\ Len(ephemeris_samples) <= n
          /\ \A c \in Callers :
                \/ ret[c].kind = "none"
                \/ /\ ret[c].kind = "result"
                   /\ ret[c].status = "completed"
                   /\ ret[c].samples_inserted = n
                   /\ Len(added[c]) = n
                \/ /\ ret[c].kind = "result"
                   /\ ret[c].error_text = Some(<<"Job not startable">>)
                   /\ ret[c].samples_inserted = 0
                   /\ added[c] = <<>>
          /\ (job.attempt_count > 0 /\ \A c \in Callers : ~Running(c)) =>
                /\ Len(ephemeris_samples) = n
                /\ job.status = "completed"
                /\ job.attempt_count = 1

\* C4: every call whose start succeeded leaves the job completed or failed,
\* never running, whatever the job row holds, and hands the caller a result,
\* not an exception.
C4_Claim ==
    [][\A c \in Callers :
          (Ends(c) /\ call[c].job_id \in DOMAIN ingestion_jobs) =>
              /\ ingestion_jobs'[call[c].job_id].status \in {"completed", "failed"}
              /\ ret'[c].kind = "result"]_vars

\* The payload_json column is NULL, the empty text or text that is not JSON.
PayloadAbsentOrInvalid(job) ==
    \/ job.payload_json = None
    \/ /\ job.payload_json # None
       /\ Get(job.payload_json).kind = "raw"

\* C5: a job whose payload_json is NULL, empty or not valid JSON is run as
\* with the empty object: no exception, the source is the job's own source
\* field and the body_id the caller's default.
C5_Claim ==
    [][\A c \in Callers :
          (/\ call[c].pc = "started"
           /\ call'[c] # call[c]
           /\ call[c].job_id \in DOMAIN ingestion_jobs
           /\ PayloadAbsentOrInvalid(ingestion_jobs[call[c].job_id])) =>
              LET job == ingestion_jobs[call[c].job_id]
                  source == strip(job.source)
              IN /\ ret'[c].kind # "raised"
                 /\ IF source = <<>> \/ ~is_file(disk, source)
                    THEN call'[c].pc = "fail"
                    ELSE LET parsed == parse_horizons_vectors(disk, source,
                                                              strip(call[c].body_id))
                         IN IF ~parsed.ok THEN call'[c].pc = "fail"
                            ELSE IF parsed.samples = <<>>
                            THEN call'[c].pc = "complete_empty"
                            ELSE /\ call'[c].pc = "lookup"
                                 /\ call'[c].samples = parsed.samples]_vars

\* C6 as claimed: a completed job stays completed under every step.
C6_Claim ==
    [][\A i \in DOMAIN ingestion_jobs :
          ingestion_jobs[i].status = "completed" =>
              ingestion_jobs'[i].status = "completed"]_vars

\* C6 as amended: a completed job stays completed under start, complete and
\* every run_ingestion_job call that begins afterwards (its start is refused);
\* only an ingestion_job_fail, called directly or by a run that had started
\* before, moves it, and then to failed.
C6_CompletedUnlessFailed ==
    [][/\ \A i \in DOMAIN ingestion_jobs :
             (/\ ingestion_jobs[i].status = "completed"
              /\ ingestion_jobs'[i].status # "completed") =>
                 /\ ingestion_jobs'[i].status = "failed"
                 /\ \/ \E j \in CallJobIds, e \in ErrorInputs, t \in TenantInputs :
                          DirectFail(j, e, t)
                    \/ \E c \in Callers : RunFail(c)
       /\ \A c \in Callers :
             (/\ ~Running(c)
              /\ call'[c].pc \notin {"idle", "rejected"}) =>
                 ingestion_jobs[call'[c].job_id].status # "completed"]_vars

\* C6 witness: the job is completed and a run_ingestion_job call begun on the
\* completed job was refused.
C6_Witness ==
    \E c \in Callers :
        /\ ret[c].kind = "result"
        /\ ret[c].status = "completed"
        /\ ret[c].error_text = Some(<<"Job not startable">>)
        /\ ingestion_jobs[ret[c].job_id].status = "completed"

\* The tables as they would be if the rows of every other tenant belonged to
\* no tenant: ids are AUTOINCREMENT over the whole table, so the rows keep
\* their ids.
NoTenant == <<>>
Purge(db, tenant) ==
    [t \in DOMAIN db |->
        [i \in DOMAIN db[t] |->
            IF db[t][i].tenant_id = tenant THEN db[t][i]
            ELSE [db[t][i] EXCEPT !.tenant_id = NoTenant]]]

\* C7: tenant isolation.  After any sequence of inserts under any tenants,
\* every get/list/search of the seven tenant-scoped tables called with tenant
\* B returns only rows whose tenant_id is B (a row of another tenant is
\* absent, not-found), and what it may return is what it may return when the
\* rows of the other tenants are taken out of reach: the result under B does
\* not depend on what was inserted under A.
C7_TenantIsolation ==
    answer # NoAnswer =>
        LET B == Tenant(answer.tenant_id) IN
        /\ \A k \in DOMAIN answer.rows : answer.rows[k].row.tenant_id = B
        /\ Select(answer.op, answer.args, answer.tenant_id, Database)
              = Select(answer.op, answer.args, answer.tenant_id, Purge(Database, B))

\* C7 witness: a list under tenant B returned B's one document while the
\* table also holds an earlier document of another tenant that passes the
\* same filter.
C7_Witness ==
    /\ answer.op = "library_document_list"
    /\ answer.args.limit = 100
    /\ Len(answer.rows) = 1
    /\ \E i \in DOMAIN library_documents :
          /\ library_documents[i].tenant_id # Tenant(answer.tenant_id)
          /\ answer.args.document_type # "" =>
                library_documents[i].document_type = answer.args.document_type
          /\ i < answer.rows[1].id

\* C8: a call whose start succeeded on a job whose resolved source is blank or
\* no existing file ends with the job failed with an error_text, returns a
\* failed result and inserts no row.
C8_Claim ==
    [][\A c \in Callers :
          (/\ Ends(c)
           /\ call[c].job_id \in DOMAIN ingestion_jobs
           /\ ~JobHasFile(ingestion_jobs[call[c].job_id])) =>
              /\ ingestion_jobs'[call[c].job_id].status = "failed"
              /\ ingestion_jobs'[call[c].job_id].error_text # None
              /\ ret'[c].kind = "result"
              /\ ret'[c].status = "failed"
              /\ added'[c] = <<>>
              /\ ephemeris_samples' = ephemeris_samples]_vars

\* C9: a call whose start succeeded on an existing source file that parses to
\* n >= 0 samples adds exactly those n rows, in parse order, under the
\* runner's tenant with frame J2000 and the resolved source_file_id, leaves
\* the job completed with error_text null and returns completed with
\* samples_inserted = n.
C9_Claim ==
    [][\A c \in Callers :
          (/\ Ends(c)
           /\ call[c].job_id \in DOMAIN ingestion_jobs
           /\ JobHasFile(ingestion_jobs[call[c].job_id])
           /\ JobParse(ingestion_jobs[call[c].job_id], call[c].body_id).ok) =>
              LET job == ingestion_jobs'[call[c].job_id]
                  samples == JobParse(job, call[c].body_id).samples
                  ids == added'[c]
              IN /\ Len(ids) = Len(samples)
                 /\ \A k \in DOMAIN ids :
                       /\ k > 1 => ids[k - 1] < ids[k]
                       /\ ephemeris_samples'[ids[k]] =
                             [body_id |-> samples[k].body_id,
                              epoch_utc |-> samples[k].epoch_utc,
                              position |-> samples[k].position,
                              velocity |-> samples[k].velocity,
                              frame_id |-> "J2000",
                              source_file_id |-> call[c].source_file_id,
                              tenant_id |-> Tenant(call[c].tenant_id)]
                 /\ job.status = "completed"
                 /\ job.error_text = None
                 /\ ret'[c].kind = "result"
                 /\ ret'[c].status = "completed"
                 /\ ret'[c].samples_inserted = Len(samples)]_vars

\* The status run_ingestion_job reports for a job it could not start.
StoredStatus(jobs, job_id, tenant_id) ==
    IF Visible(jobs, job_id, tenant_id) THEN jobs[job_id].status ELSE "not_found"

\* C10: when the start inside run_ingestion_job is refused (job running or
\* completed, id missing, or another tenant's job) the call is a no-op: it
\* returns samples_inserted = 0 and the job's stored status, or not_found when
\* the tenant sees no such job, and changes no job row and no ephemeris row.
C10_RefusedIsNoOp ==
    [][\A c \in Callers :
          /\ (call[c].pc = "idle" /\ call'[c].pc = "rejected") =>
                /\ ~Startable(ingestion_jobs, call'[c].job_id, call'[c].tenant_id)
                /\ UNCHANGED <<ingestion_jobs, ephemeris_samples>>
          /\ (call[c].pc = "rejected" /\ call'[c].pc = "idle") =>
                /\ UNCHANGED <<ingestion_jobs, ephemeris_samples>>
                /\ ret'[c].kind = "result"
                /\ ret'[c].samples_inserted = 0
                /\ added'[c] = <<>>
                /\ ret'[c].status =
                      StoredStatus(ingestion_jobs, call[c].job_id, call[c].tenant_id)]_vars

\* C10 witness: refused calls have returned the status of a running job, and
\* not_found for an existing job that belongs to another tenant.
C10_Witness ==
    \E c, d \in Callers :
        /\ ret[c].kind = "result" /\ ret[c].error_text = Some(<<"Job not startable">>)
        /\ ret[c].status = "running"
        /\ ret[d].kind = "result" /\ ret[d].error_text = Some(<<"Job not startable">>)
        /\ ret[d].status = "not_found"
        /\ ret[d].job_id \in DOMAIN ingestion_jobs

\* The step is a start of job i that returned true: a direct
\* ingestion_job_start, or the start that opens a run_ingestion_job call.
StartReturnedTrue(i) ==
    \/ \E c \in Callers :
          /\ ret'[c].kind = "start" /\ ret'[c].status = "True" /\ ret'[c].job_id = i
          /\ DirectStart(c, i, ret'[c].tenant_id)
    \/ \E c \in Callers :
          /\ call[c].pc = "idle" /\ call'[c].pc = "started" /\ call'[c].job_id = i
          /\ RunStart(c, i, call'[c].tenant_id, call'[c].body_id)

\* C11: attempt_count starts at 0, never decreases and is never reset; a step
\* raises it, and then by exactly 1, exactly when the step is a start of the
\* job that returned true, so it equals the number of successful starts; a
\* refused start, complete, fail and every other step of a run_ingestion_job
\* call leave it unchanged.
C11_AttemptCount ==
    /\ \A i \in DOMAIN ingestion_jobs : ingestion_jobs[i].attempt_count = 0
    /\ [][\A i \in DOMAIN ingestion_jobs :
             ingestion_jobs'[i].attempt_count =
                 ingestion_jobs[i].attempt_count
                 + (IF StartReturnedTrue(i) THEN 1 ELSE 0)]_vars

\* C11 witness: a job that was started, failed and started again has
\* attempt_count 2 and has since been failed again.
C11_Witness ==
    \E i \in DOMAIN ingestion_jobs :
        /\ ingestion_jobs[i].attempt_count = 2
        /\ ingestion_jobs[i].status = "failed"

\* C12: started_at is written only by the first successful start of a job
\* (with the time of that start); once it is non-null no later start,
\* complete, fail or run_ingestion_job step changes it.
C12_StartedAtOnce ==
    [][\A i \in DOMAIN ingestion_jobs :
          LET old == ingestion_jobs[i]
              new == ingestion_jobs'[i]
          IN /\ old.started_at # None => new.started_at = old.started_at
             /\ (old.started_at = None /\ new.started_at # None) =>
                   /\ StartReturnedTrue(i)
                   /\ old.attempt_count = 0
                   /\ new.started_at = Some(now)]_vars

\* C12 witness: a job first started at time 0 is running in its second
\* attempt, started at time 1, and started_at is still 0.
C12_Witness ==
    \E i \in DOMAIN ingestion_jobs :
        /\ ingestion_jobs[i].attempt_count = 2
        /\ ingestion_jobs[i].status = "running"
        /\ ingestion_jobs[i].started_at = Some(0)
        /\ ingestion_jobs[i].updated_at = 1

\* The fields of a job that complete must not depend on being called twice.
CompleteFields(row) ==
    <<row.status, row.error_text, row.attempt_count, row.started_at>>

\* C13: complete is unguarded and idempotent: from any status it leaves the
\* job completed with error_text null, attempt_count and started_at as they
\* were, and a second complete right after it (at any later time) gives the
\* same status, error_text, attempt_count and started_at.
C13_CompleteIdempotent ==
    [][\A j \in CallJobIds, t \in TenantInputs :
          DirectComplete(j, t) =>
              \A i \in DOMAIN ingestion_jobs :
                  IF Visible(ingestion_jobs, i, t) /\ i = j
                  THEN /\ ingestion_jobs'[i].status = "completed"
                       /\ ingestion_jobs'[i].error_text = None
                       /\ ingestion_jobs'[i].attempt_count = ingestion_jobs[i].attempt_count
                       /\ ingestion_jobs'[i].started_at = ingestion_jobs[i].started_at
                       /\ \A t2 \in now..MaxNow :
                             CompleteFields(ingestion_job_complete(ingestion_jobs', j, t, t2)[i])
                                = CompleteFields(ingestion_jobs'[i])
                  ELSE ingestion_jobs'[i] = ingestion_jobs[i]]_vars

\* C13 witness: a job that had failed, with an error_text, was retried and is
\* now completed at time 1 with error_text null.
C13_Witness ==
    \E i \in DOMAIN ingestion_jobs :
        /\ ingestion_jobs[i].status = "completed"
        /\ ingestion_jobs[i].attempt_count = 2
        /\ ingestion_jobs[i].error_text = None
        /\ ingestion_jobs[i].finished_at = Some(1)

\* The registry entry file_id exists under the tenant, its local_path is an
\* existing file and its stored checksum is the digest of the file's bytes.
ChecksumMatches(reg, fs, tenant_id, file_id) ==
    /\ file_id \in DOMAIN reg
    /\ reg[file_id].tenant_id = Tenant(tenant_id)
    /\ resolve(reg[file_id].local_path) \in DOMAIN fs
    /\ reg[file_id].checksum = Some(hexdigest(fs[resolve(reg[file_id].local_path)]))

\* C14: validate_checksum(file_id) raises nothing and returns true exactly
\* when the entry exists under the runner's tenant, its local_path is an
\* existing file and the stored checksum is the one recomputed from the
\* file's bytes; it is true right after register_file computed the checksum,
\* false once the bytes of the file are changed, false when the file is gone.
C14_ValidateChecksum ==
    [][/\ \A i \in 1..MaxInserts + 1, t \in TenantInputs :
             answer'.op = "validate_checksum" /\ ValidateChecksum(i, t) =>
                /\ answer'.raised = ""
                /\ answer'.valid = ChecksumMatches(nasa_file_registry, disk, t, i)
       /\ \A f \in FileTypeInputs, p \in LocalPathInputs, t \in TenantInputs :
             /\ answer'.op = "register_file"
             /\ RegisterFile(f, p, None, t)
             /\ answer'.raised = ""
             =>
                validate_checksum(nasa_file_registry', disk', t, answer'.id)
       /\ \A d \in WriteInputs, i \in DOMAIN nasa_file_registry, t \in TenantInputs :
             /\ disk' # disk
             /\ FileWrite(PathTwo, d)
             /\ validate_checksum(nasa_file_registry, disk, t, i)
             /\ disk'[PathTwo] # disk[PathTwo]
             => ~validate_checksum(nasa_file_registry', disk', t, i)
       /\ \A i \in DOMAIN nasa_file_registry, t \in TenantInputs :
             /\ disk' # disk
             /\ FileUnlink(PathTwo)
             /\ validate_checksum(nasa_file_registry, disk, t, i)
             => ~validate_checksum(nasa_file_registry', disk', t, i)]_vars

\* A file registered with a computed checksum was rewritten with other bytes
\* and validate_checksum of its entry then returned false.
C14_Witness ==
    /\ answer.op = "validate_checksum"
    /\ ~answer.valid
    /\ answer.args.file_id \in DOMAIN nasa_file_registry
    /\ LET row == nasa_file_registry[answer.args.file_id] IN
          /\ row.tenant_id = Tenant(answer.tenant_id)
          /\ row.local_path = PathTwo
          /\ row.checksum = Some(hexdigest(InitialDisk[PathTwo]))
          /\ PathTwo \in DOMAIN disk
          /\ disk[PathTwo] # InitialDisk[PathTwo]

\* C15: register_file raises FileNotFoundError when local_path is no existing
\* regular file and ValueError when file_type is none of the five types (the
\* path is checked first); a call that raises adds no row to
\* nasa_file_registry, a call that returns adds exactly one row and returns
\* its id.
C15_RegisterFile ==
    [][\A f \in FileTypeInputs, p \in LocalPathInputs, k \in ChecksumInputs,
          t \in TenantInputs :
          answer'.op = "register_file" /\ RegisterFile(f, p, k, t) =>
             IF resolve(p) \notin DOMAIN disk
             THEN /\ answer'.raised = "FileNotFoundError"
                  /\ nasa_file_registry' = nasa_file_registry
             ELSE IF f \notin {"spk", "pck", "lsk", "fk", "horizons"}
             THEN /\ answer'.raised = "ValueError"
                  /\ nasa_file_registry' = nasa_file_registry
             ELSE /\ answer'.raised = ""
                  /\ Len(nasa_file_registry') = Len(nasa_file_registry) + 1
                  /\ SubSeq(nasa_file_registry', 1, Len(nasa_file_registry))
                        = nasa_file_registry
                  /\ answer'.id = Len(nasa_file_registry')
                  /\ nasa_file_registry'[answer'.id].file_type = f
                  /\ nasa_file_registry'[answer'.id].local_path = resolve(p)
                  /\ nasa_file_registry'[answer'.id].tenant_id = Tenant(t)]_vars

\* One file was registered, and a later call with an unknown file_type on an
\* existing file raised ValueError and left the registry at that one row.
C15_Witness ==
    /\ answer.op = "register_file"
    /\ answer.raised = "ValueError"
    /\ is_file(disk, answer.args.local_path)
    /\ Len(nasa_file_registry) = 1
    /\ nasa_file_registry[1].checksum = Some(Checksum)

\* C16: library_document_search with lat and lon given and distance_mi = 0
\* returns only documents whose stored geohash is the 7-character geohash of
\* the probe; with another numeric distance_mi only documents that have lat
\* and lon stored and lie within that Haversine distance; so no returned
\* document lacks stored coordinates while a numeric distance is given.
C16_LocationFilter ==
    (/\ answer.op = "library_document_search"
     /\ answer.args.lat # None /\ answer.args.lon # None
     /\ answer.args.distance_mi.kind = "float")
    => \A k \in DOMAIN answer.rows :
          LET doc == answer.rows[k].row
              probe == answer.args
          IN /\ doc = library_documents[answer.rows[k].id]
             /\ doc.lat # None /\ doc.lon # None
             /\ IF probe.distance_mi.val = 0
                THEN doc.geohash
                        = Some(geohash_encode(Get(probe.lat), Get(probe.lon), 7))
                ELSE haversine_mi(Get(probe.lat), Get(probe.lon), Get(doc.lat),
                                  Get(doc.lon)) <= 1000 * probe.distance_mi.val

\* The caller's tenant holds a document without coordinates and one a
\* quarter turn from the probe; the search within 7000 miles returned the
\* second and not the first.
C16_Witness ==
    /\ answer.op = "library_document_search"
    /\ answer.args.distance_mi = Miles(7000)
    /\ Len(answer.rows) = 1
    /\ answer.rows[1].row.lon = Some(90)
    /\ \E i \in DOMAIN library_documents :
          /\ library_documents[i].tenant_id = Tenant(answer.tenant_id)
          /\ library_documents[i].lat = None

\* C17: for every (lat, lon) in [-90, 90] x [-180, 180] and every precision,
\* geohash_encode returns exactly `precision` characters, each of the 32
\* symbols 0-9, b-h, j, k, m, n, p-z (never a, i, l or o), and the same
\* arguments give the same string.
C17_Claim ==
    answer.op = "geohash_encode" =>
       /\ Len(answer.hash) = answer.args.precision
       /\ \A k \in DOMAIN answer.hash :
             answer.hash[k] \in {"0", "1", "2", "3", "4", "5", "6", "7", "8", "9",
                                 "b", "c", "d", "e", "f", "g", "h", "j", "k", "m",
                                 "n", "p", "q", "r", "s", "t", "u", "v", "w", "x",
                                 "y", "z"}
       /\ answer.hash = geohash_encode(answer.args.lat, answer.args.lon,
                                       answer.args.precision)

\* C18: haversine_mi(p, p) = 0, haversine_mi(a, b) = haversine_mi(b, a), and
\* the result lies in [0, 2*pi*R] (thousandths of a mile here).
C18_Haversine ==
    answer.op = "haversine_mi" =>
       LET a == answer.args IN
       /\ (a.lat1 = a.lat2 /\ a.lon1 = a.lon2) => answer.miles = 0
       /\ answer.miles = haversine_mi(a.lat2, a.lon2, a.lat1, a.lon1)
       /\ 0 <= answer.miles
       /\ answer.miles <= 4 * QuarterTurnMilliMi

\* The distance from a pole to a point of the equator was computed: it is a
\* quarter turn, the cosine of one latitude being 0 and of the other 1.
C18_Witness ==
    /\ answer.op = "haversine_mi"
    /\ answer.args.lat1 = 90 /\ answer.args.lat2 = 0
    /\ answer.args.lon1 = 0 /\ answer.args.lon2 = 180
    /\ answer.miles = QuarterTurnMilliMi

\* C19: without a file_id in the payload, the source_file_id on the inserted
\* samples is the id of the most recent horizons entry of the runner's
\* tenant whose local_path is the resolved source path, whatever newer
\* horizons entries other paths have, and null only when no horizons entry
\* matches the path; with a file_id in the payload it is that value.
C19_Claim ==
    \A k \in DOMAIN ephemeris_samples :
       LET row == ephemeris_samples[k]
           job == ingestion_jobs[1]
           file_id == decode_payload(job.payload_json).val.file_id
           matches == {i \in DOMAIN nasa_file_registry :
                          /\ nasa_file_registry[i].file_type = "horizons"
                          /\ nasa_file_registry[i].tenant_id = row.tenant_id
                          /\ nasa_file_registry[i].local_path = resolve(JobSource(job))}
       IN row.source_file_id =
             IF file_id # None THEN file_id
             ELSE IF matches = {} THEN None
             ELSE Some(CHOOSE i \in matches : \A j \in matches : j <= i)

\* The call of c runs a job whose payload decodes to an object and whose
\* source is an existing file on which the parser raises.
ParserRaises(c) ==
    /\ call[c].job_id \in DOMAIN ingestion_jobs
    /\ LET job == ingestion_jobs[call[c].job_id] IN
          /\ decode_payload(job.payload_json).dict
          /\ JobHasFile(job)
          /\ ~JobParse(job, call[c].body_id).ok

\* C20: when the Horizons parser raises on the source file, run_ingestion_job
\* raises nothing: it returns status failed with the exception's message as
\* error_text, the job is left failed with that error_text, and the call has
\* inserted no ephemeris row.
C20_ParseFailure ==
    [][\A c \in Callers :
          (Ends(c) /\ ParserRaises(c)) =>
              LET job == ingestion_jobs'[call[c].job_id]
                  message == JobParse(job, call[c].body_id).error
              IN /\ ret'[c].kind = "result"
                 /\ ret'[c].status = "failed"
                 /\ ret'[c].error_text = Some(message)
                 /\ ret'[c].samples_inserted = 0
                 /\ job.status = "failed"
                 /\ job.error_text = Some(message)
                 /\ added'[c] = <<>>
                 /\ ephemeris_samples' = ephemeris_samples]_vars

\* A call on the file whose second block is dated Feb 30 has returned failed
\* with the parser's message; the first block, which parses, was not inserted.
C20_Witness ==
    \E c \in Callers :
       /\ ret[c].kind = "result"
       /\ ret[c].status = "failed"
       /\ ret[c].error_text = Some(ValueError)
       /\ ingestion_jobs[1].status = "failed"
       /\ ingestion_jobs[1].error_text = Some(ValueError)
       /\ JobSource(ingestion_jobs[1]) = PathBad
       /\ ephemeris_samples = <<>>

\* The document passes the tenant, document_type, q and location filters of
\* the search.
PassesFilters(doc, probe, tenant_id) ==
    /\ doc.tenant_id = Tenant(tenant_id)
    /\ probe.document_type # "" => doc.document_type = probe.document_type
    /\ probe.q # <<>> => (Like(doc.type_metadata, probe.q) \/ Like(doc.url, probe.q))
    /\ (probe.lat # None /\ probe.lon # None /\ probe.distance_mi.kind = "float") =>
          IF probe.distance_mi.val = 0
          THEN doc.geohash = Some(geohash_encode(Get(probe.lat), Get(probe.lon), 7))
          ELSE /\ doc.lat # None /\ doc.lon # None
               /\ haversine_mi(Get(probe.lat), Get(probe.lon), Get(doc.lat), Get(doc.lon))
                     <= 1000 * probe.distance_mi.val

\* C21: library_document_search applies limit after the location filter: the
\* result is the first `limit` documents, in descending id order, of those
\* that pass the tenant, document_type, q and location filters, and never
\* has more than `limit` rows (limit >= 0).
C21_LimitAfterFilter ==
    (answer.op = "library_document_search" /\ answer.args.limit >= 0) =>
       LET passing == {i \in DOMAIN library_documents :
                          PassesFilters(library_documents[i], answer.args,
                                        answer.tenant_id)}
           n == Min(answer.args.limit, Cardinality(passing))
       IN /\ Len(answer.rows) = n
          /\ \A k \in 1..n :
                /\ answer.rows[k].id \in passing
                /\ answer.rows[k].row = library_documents[answer.rows[k].id]
                /\ Cardinality({j \in passing : j > answer.rows[k].id}) = k - 1

\* The newest document of the tenant fails the location filter, an older one
\* passes it, and the search with limit 1 returned the older one.
C21_Witness ==
    /\ answer.op = "library_document_search"
    /\ answer.args.limit = 1
    /\ Len(answer.rows) = 1
    /\ \E i \in DOMAIN library_documents :
          /\ i > answer.rows[1].id
          /\ library_documents[i].tenant_id = Tenant(answer.tenant_id)
          /\ ~PassesFilters(library_documents[i], answer.args, answer.tenant_id)
          /\ PassesFilters(library_documents[i],
                           [answer.args EXCEPT !.distance_mi = NoDistance],
                           answer.tenant_id)

\* The standard interleaving: subdivision steps counted from 0 across the
\* whole string, longitude on even steps and latitude on odd steps, 5 bits a
\* character, the character taken from the code's alphabet.
RECURSIVE InterleavedLoop(_, _, _, _)
InterleavedLoop(lat, lon, g, precision) ==
    IF Len(g.result) >= precision THEN g.result
    ELSE LET even == g.step % 2 = 0
             mid == IF even THEN (g.lon_lo + g.lon_hi) \div 2
                    ELSE (g.lat_lo + g.lat_hi) \div 2
             up == IF even THEN lon * GeoScale >= mid ELSE lat * GeoScale >= mid
             bits == 2 * g.bits + (IF up THEN 1 ELSE 0)
             h == [g EXCEPT !.lon_lo = IF even /\ up THEN mid ELSE @,
                            !.lon_hi = IF even /\ ~up THEN mid ELSE @,
                            !.lat_lo = IF ~even /\ up THEN mid ELSE @,
                            !.lat_hi = IF ~even /\ ~up THEN mid ELSE @,
                            !.step = @ + 1]
         IN IF (g.step + 1) % 5 = 0
            THEN InterleavedLoop(lat, lon,
                     [h EXCEPT !.bits = 0,
                               !.result = Append(@, GEOHASH_ALPHABET[bits + 1])],
                     precision)
            ELSE InterleavedLoop(lat, lon, [h EXCEPT !.bits = bits], precision)

Interleaved(lat, lon, precision) ==
    InterleavedLoop(lat, lon,
                    [lat_lo |-> -90 * GeoScale, lat_hi |-> 90 * GeoScale,
                     lon_lo |-> -180 * GeoScale, lon_hi |-> 180 * GeoScale,
                     bits |-> 0, step |-> 0, result |-> <<>>],
                    precision)

\* C22: geohash_encode follows the standard bit interleaving: with the steps
\* counted from 0 across the whole string, every even step halves the
\* longitude range and every odd step the latitude range, and each group of
\* 5 consecutive bits selects one character.
C22_Claim ==
    answer.op = "geohash_encode" =>
       answer.hash = Interleaved(answer.args.lat, answer.args.lon, answer.args.precision)

\* The epochs of the blocks of a file that have an epoch, a position and a
\* velocity line.
ValidEpochs(blocks) ==
    {Get(blocks[k].epoch).utc :
        k \in {j \in DOMAIN blocks : /\ blocks[j].epoch # None
                                     /\ blocks[j].pos # None
                                     /\ blocks[j].vel # None}}

\* C23: validate_coverage raises nothing.  For a registered file that is on
\* the disk: a horizons file that parses gives valid = true, sample_count =
\* the number of valid blocks and valid_from / valid_to = the least / greatest
\* parsed epoch (the stored values when there is no sample); a horizons file
\* whose parse raises gives valid = false and the error text; any other file
\* type gives the stored valid_from and valid_to.  Without the entry or the
\* file the result is valid = false.
C23_ValidateCoverage ==
    [][\A i \in 1..MaxInserts + 1, t \in TenantInputs :
          (answer'.op = "validate_coverage" /\ ValidateCoverage(i, t)) =>
             LET got == answer'.result IN
             /\ "raised" \notin got.keys
             /\ IF ~Visible(nasa_file_registry, i, t)
                THEN ~got.valid /\ got.error = <<"file not found">>
                ELSE LET row == nasa_file_registry[i] IN
                     IF resolve(row.local_path) \notin DOMAIN disk
                     THEN ~got.valid /\ got.error = <<"file not on disk">>
                     ELSE LET blocks == disk[resolve(row.local_path)]
                              epochs == ValidEpochs(blocks)
                              raises == \E k \in DOMAIN blocks :
                                           /\ blocks[k].epoch # None
                                           /\ blocks[k].pos # None
                                           /\ blocks[k].vel # None
                                           /\ ~Get(blocks[k].epoch).date_ok
                          IN IF row.file_type # "horizons"
                             THEN /\ got.valid
                                  /\ got.valid_from = row.valid_from
                                  /\ got.valid_to = row.valid_to
                             ELSE IF raises
                             THEN /\ ~got.valid
                                  /\ got.keys = {"valid", "error"}
                                  /\ got.error = ValueError
                             ELSE /\ got.valid
                                  /\ got.sample_count = Cardinality(
                                        {k \in DOMAIN blocks : /\ blocks[k].epoch # None
                                                               /\ blocks[k].pos # None
                                                               /\ blocks[k].vel # None})
                                  /\ IF epochs = {}
                                     THEN /\ got.valid_from = row.valid_from
                                          /\ got.valid_to = row.valid_to
                                     ELSE /\ Get(got.valid_from) \in epochs
                                          /\ Get(got.valid_to) \in epochs
                                          /\ \A e \in epochs :
                                                /\ Get(got.valid_from) <= e
                                                /\ e <= Get(got.valid_to)]_vars

\* Two entries were made, a horizons file whose parse raises and a kernel
\* with a declared coverage, and validate_coverage of the first returned
\* valid = false with the parser's message.
C23_Witness ==
    /\ answer.op = "validate_coverage"
    /\ answer.result.keys = {"valid", "error"}
    /\ answer.result.error = ValueError
    /\ Len(nasa_file_registry) = 2
    /\ \E i \in DOMAIN nasa_file_registry :
          /\ nasa_file_registry[i].file_type = "spk"
          /\ nasa_file_registry[i].valid_from = Some(7)

\* The block has an epoch line, a position line and a velocity line.
Complete(b) == b.epoch # None /\ b.pos # None /\ b.vel # None

\* C24: the Horizons parser returns exactly one record per block that has an
\* epoch, a position and a velocity line and none for a block that lacks one
\* of them; the records are in the order of the blocks in the file and each
\* carries the caller's body_id.
C24_OneRecordPerBlock ==
    (answer.op = "parse_horizons_vectors" /\ answer.result.ok) =>
       LET blocks == disk[PathTwo]
           valid == SelectSeq(blocks, Complete)
           samples == answer.result.samples
       IN /\ Len(samples) = Len(valid)
          /\ \A k \in DOMAIN samples :
                /\ samples[k].body_id = answer.args.body_id
                /\ samples[k].epoch_utc = Get(valid[k].epoch).utc
                /\ samples[k].position = Get(valid[k].pos)
                /\ samples[k].velocity = Get(valid[k].vel)

\* A file of three blocks, the later epoch first and a block without a
\* velocity line between the two, was parsed into two records in file order.
C24_Witness ==
    /\ answer.op = "parse_horizons_vectors"
    /\ answer.result.ok
    /\ Len(disk[PathTwo]) = 3
    /\ ~Complete(disk[PathTwo][2])
    /\ Len(answer.result.samples) = 2
    /\ answer.result.samples[1].epoch_utc = 2
    /\ answer.result.samples[2].epoch_utc = 1

\* No call of run_ingestion_job is under way.
Quiet == \A c \in Callers : call[c].pc = "idle"

\* The last call of c was a run of job 1 that failed on a raising insert.
FailedRun(c) ==
    /\ ret[c].kind = "result"
    /\ ret[c].job_id = 1
    /\ ret[c].status = "failed"
    /\ ret[c].error_text = Some(OperationalError)

\* The last call of c was a run of job 1 that completed.
CompletedRun(c) ==
    /\ ret[c].kind = "result"
    /\ ret[c].job_id = 1
    /\ ret[c].status = "completed"
    /\ ret[c].error_text = None

\* The number of samples in the file of job j.
SamplesOf(j) == Len(JobParse(ingestion_jobs[j], Mars).samples)

\* C25: ingestion does not de-duplicate.  When a run of job 1 failed after
\* inserting k samples and the job was then re-run to completion on its file
\* of n samples (job 2 never started), ephemeris_samples holds k + n rows,
\* the k earlier rows being kept and inserted again; when the same n-sample
\* file was ingested once through each of the two jobs, it holds 2n rows.
C25_NoDeduplication ==
    /\ \A c, d \in Callers :
          (/\ Quiet
           /\ FailedRun(c)
           /\ CompletedRun(d)
           /\ ingestion_jobs[1].attempt_count = 2
           /\ ingestion_jobs[2].attempt_count = 0) =>
             LET k == Len(added[c])
                 n == SamplesOf(1)
             IN /\ Len(ephemeris_samples) = k + n
                /\ ret[d].samples_inserted = n
                /\ \A i \in 1..k : ephemeris_samples[i] = ephemeris_samples[k + i]
    /\ (/\ Quiet
        /\ \A j \in {1, 2} : /\ ingestion_jobs[j].status = "completed"
                             /\ ingestion_jobs[j].attempt_count = 1) =>
          Len(ephemeris_samples) = SamplesOf(1) + SamplesOf(2)

\* A run of job 1 failed after one insert, the job was re-run to completion,
\* and the table holds three rows, the first of them twice.
C25_Witness ==
    /\ Quiet
    /\ FailedRun("c1")
    /\ CompletedRun("c2")
    /\ Len(added["c1"]) = 1
    /\ ingestion_jobs[1].attempt_count = 2
    /\ ingestion_jobs[2].attempt_count = 0
    /\ Len(ephemeris_samples) = 3
    /\ ephemeris_samples[1] = ephemeris_samples[2]

\* C27: for every outcome of run_ingestion_job the samples_inserted of the
\* returned IngestionResult is the number of rows the call added to
\* ephemeris_samples, also when an exception interrupted the insert loop.
C27_Claim ==
    \A c \in Callers :
        ret[c].kind = "result" => ret[c].samples_inserted = Len(added[c])

\* Two calls of run_ingestion_job are past their successful start on the
\* same job and neither has written its own complete or fail.
BothActive(c, d) ==
    /\ c # d
    /\ Running(c)
    /\ Running(d)
    /\ call[c].job_id = call[d].job_id

\* C26 as claimed: at most one active run per job, also when other callers
\* call ingestion_job_complete or ingestion_job_fail directly: never are two
\* run_ingestion_job calls both between their start and their own
\* complete/fail on the same job.
C26_Claim == \A c, d \in Callers : ~BothActive(c, d)

\* C26 as amended: a run_ingestion_job call starts on a job that another call
\* is still running only when the stored status of the job is failed, that is
\* after an ingestion_job_fail was written on the job during that run; a job
\* that is running or completed admits no second run.
C26_SecondRunOnlyAfterFail ==
    [][\A c \in Callers :
          (/\ ~Running(c)
           /\ call'[c].pc \notin {"idle", "rejected"}
           /\ \E d \in Callers \ {c} :
                 Running(d) /\ call[d].job_id = call'[c].job_id) =>
              /\ ingestion_jobs[call'[c].job_id].status = "failed"
              /\ ingestion_jobs[call'[c].job_id].error_text # None
              /\ ingestion_jobs[call'[c].job_id].attempt_count >= 1]_vars

\* C26 witness: a second call started on the job, failed under a call that is
\* still running it; two calls are active on job 1.
C26_Witness ==
    /\ BothActive("c1", "c2")
    /\ ingestion_jobs[1].status = "running"
    /\ ingestion_jobs[1].attempt_count = 2

\* C28 as claimed: every job whose status is completed or failed has been
\* started at least once: attempt_count >= 1 and started_at is non-null.
C28_Claim ==
    \A i \in DOMAIN ingestion_jobs :
        ingestion_jobs[i].status \in {"completed", "failed"} =>
            /\ ingestion_jobs[i].attempt_count >= 1
            /\ ingestion_jobs[i].started_at # None

\* C28 as amended: started_at is non-null exactly when attempt_count >= 1, and
\* every job row that a step of run_ingestion_job writes has attempt_count >=
\* 1; a job gets to completed or failed with attempt_count 0 and started_at
\* null only by an ingestion_job_complete or ingestion_job_fail called
\* directly on a job that no start succeeded on.
C28_StartedUnlessDirect ==
    [][\A i \in DOMAIN ingestion_jobs :
          LET old == ingestion_jobs[i]
              new == ingestion_jobs'[i]
          IN /\ new.attempt_count >= 1 <=> new.started_at # None
             /\ (new # old /\ call' # call) =>
                   /\ new.attempt_count >= 1
                   /\ new.started_at # None
             /\ (new # old /\ new.status \in {"completed", "failed"}
                           /\ new.attempt_count = 0) =>
                   /\ call' = call
                   /\ ret' = ret
                   /\ old.attempt_count = 0
                   /\ old.status \in {"pending", "completed", "failed"}]_vars

\* C28 witness: a job that was never started is completed, by a direct
\* ingestion_job_complete.
C28_Witness ==
    \E i \in DOMAIN ingestion_jobs :
        /\ ingestion_jobs[i].status = "completed"
        /\ ingestion_jobs[i].attempt_count = 0
        /\ ingestion_jobs[i].started_at = None

\* C30: a start that returns true changes only status (to running),
\* attempt_count (+1), started_at (when it was null) and updated_at; it leaves
\* finished_at and error_text as they were, so a job retried after a failure
\* is running with the error_text and finished_at of the previous attempt;
\* error_text changes only when a complete clears it or a fail overwrites it.
C30_StartFrame ==
    [][\A i \in DOMAIN ingestion_jobs :
          LET old == ingestion_jobs[i]
              new == ingestion_jobs'[i]
          IN /\ StartReturnedTrue(i) =>
                   new = [old EXCEPT !.status = "running",
                                     !.attempt_count = @ + 1,
                                     !.started_at = IF @ = None THEN Some(now) ELSE @,
                                     !.updated_at = now]
             /\ new.error_text # old.error_text =>
                   \/ new.status = "completed" /\ new.error_text = None
                   \/ new.status = "failed" /\ new.error_text # None
             /\ new.finished_at # old.finished_at =>
                   /\ new.status \in {"completed", "failed"}
                   /\ new.finished_at = Some(now)]_vars

\* C30 witness: a job that failed at time 0 was started again at time 1 and
\* is running with the error_text and the finished_at of the failure.
C30_Witness ==
    \E i \in DOMAIN ingestion_jobs :
        /\ ingestion_jobs[i].status = "running"
        /\ ingestion_jobs[i].attempt_count = 2
        /\ ingestion_jobs[i].error_text # None
        /\ ingestion_jobs[i].finished_at = Some(0)
        /\ ingestion_jobs[i].updated_at = 1

\* C29: every ephemeris sample inserted by run_ingestion_job has a
\* source_file_id that is null or the id of an existing nasa_file_registry
\* entry of the sample's tenant, whatever file_id the payload supplies.
C29_Claim ==
    \A k \in DOMAIN ephemeris_samples :
        LET s == ephemeris_samples[k] IN
        \/ s.source_file_id = None
        \/ /\ Get(s.source_file_id) \in DOMAIN nasa_file_registry
           /\ nasa_file_registry[Get(s.source_file_id)].tenant_id = s.tenant_id

====
